---- MODULE Spec2Model ----
(***************************************************************************)
(* BooQ analysis pipeline: the session registry (ANALYSIS_STATE), the run  *)
(* of start_analysis, stop_analysis / get_analysis_progress, and the       *)
(* retrieval store and chunker the run drives.                             *)
(*                                                                         *)
(* Text is a sequence of one-character strings.  Lengths are byte lengths, *)
(* as Rust's String::len is; the full-width characters of the format       *)
(* strings are written as named characters of three bytes each.            *)
(***************************************************************************)
EXTENDS Integers, Sequences, FiniteSets, TLC

VARIABLES
    meta,       \* file id -> what meta.json holds: total_pages, or unreadable
    states,     \* ANALYSIS_STATE: file id -> AnalysisState, or NoSession
    rag_index,  \* file id -> documents persisted in rag_index.json
    snapshot,   \* file id -> questions/all_questions.json, or NoFile
    runs,       \* invocation of start_analysis -> its position and locals
    faults,     \* failures of collaborators (file system, completion) so far
    polled,     \* file id -> the last answer of get_analysis_progress, or NoReply
    rag_store,  \* a RAGStore on its own: documents in memory, index file
    call,       \* the last call made on the store or the chunker, numbered
    chunker,    \* a call of TextChunker::chunk: its arguments, locals, position
    requests    \* invocation -> what became of a stop requested while it ran

vars == <<meta, states, rag_index, snapshot, runs, faults, polled, rag_store, call,
         chunker, requests>>

-----------------------------------------------------------------------------
(* Bounds of the model *)

\* largest total_pages of a small document
MaxPages == 2
\* most items in one completion reply
MaxItems == 1
\* most collaborator failures in one behaviour
MaxFaults == 1
\* how far above the batching threshold the large documents reach
BigSpan == 21
\* how many of the largest values of u32 total_pages takes
TopSpan == 20

(* Program constants *)

BatchThreshold == 400
BatchPages == 20
ChunkSize == 1000
ContextTokens == 4000
ContextTopK == 10
\* the largest number with bit 31 clear
MaxI32 == 2147483647

Files == {"f1", "f2"}
Runs == {"r1", "r2"}

NoSession == [none |-> TRUE]
NoFile == [nofile |-> TRUE]
NoReply == [noreply |-> TRUE]
ClosedStore == [open |-> FALSE, documents |-> <<>>, disk |-> <<>>]
NoCall == [n |-> 0, op |-> "none", args |-> <<>>, result |-> <<>>]
IdleChunker ==
    [pc |-> "idle", text |-> <<>>, chunk_size |-> 0, overlap |-> 0, start |-> 0,
     chunks |-> <<>>, windows |-> 0]

-----------------------------------------------------------------------------
(* u32: a value is written as its 32-bit pattern read in two's complement, *)
(* so the values below 2^31 are themselves and a value v from 2^31 on is    *)
(* v - 2^32 (u32::MAX is -1).                                               *)

ULe(a, b) == IF (a < 0) = (b < 0) THEN a <= b ELSE b < 0

ULt(a, b) == a # b /\ ULe(a, b)

UMin(a, b) == IF ULe(a, b) THEN a ELSE b

\* a + n for 0 <= n < 2^31: whether the sum leaves u32, and its pattern
UAddOverflows(a, n) == a < 0 /\ a + n >= 0

UAdd(a, n) ==
    IF a >= 0 /\ a > MaxI32 - n
    THEN (a - MaxI32 - 1) + (n - MaxI32 - 1)
    ELSE a + n

\* a - 1: whether it leaves u32, and its pattern
UDecOverflows(a) == a = 0

UDec(a) == IF a = -MaxI32 - 1 THEN MaxI32 ELSE a - 1

-----------------------------------------------------------------------------
(* Text helpers *)

Min(a, b) == IF a <= b THEN a ELSE b

\* characters that take three bytes in UTF-8
WideChars == {"<<", ">>", "((", "))", "ti", "mu", "da", "an", "::"}

ByteLen(c) == IF c \in WideChars THEN 3 ELSE 1

RECURSIVE StrLen(_)
StrLen(s) == IF s = <<>> THEN 0 ELSE ByteLen(Head(s)) + StrLen(Tail(s))

IsSpace(c) == c \in {" ", "\n"}

IsBlank(s) == \A i \in 1..Len(s) : IsSpace(s[i])

Lower(c) == IF c = "A" THEN "a" ELSE IF c = "B" THEN "b" ELSE c

ToLower(s) == [i \in 1..Len(s) |-> Lower(s[i])]

\* w occurs in s as a contiguous substring
Contains(s, w) ==
    \E i \in 0..(Len(s) - Len(w)) : \A j \in 1..Len(w) : s[i + j] = w[j]

RECURSIVE SplitWhitespaceFrom(_, _, _)
SplitWhitespaceFrom(s, i, cur) ==
    IF i > Len(s)
    THEN IF cur = <<>> THEN <<>> ELSE <<cur>>
    ELSE IF IsSpace(s[i])
         THEN (IF cur = <<>> THEN <<>> ELSE <<cur>>) \o SplitWhitespaceFrom(s, i + 1, <<>>)
         ELSE SplitWhitespaceFrom(s, i + 1, Append(cur, s[i]))

SplitWhitespace(s) == SplitWhitespaceFrom(s, 1, <<>>)

\* str::split("\n\n"): leftmost non-overlapping separators, empty pieces kept
RECURSIVE SplitParagraphsFrom(_, _, _)
SplitParagraphsFrom(s, i, cur) ==
    IF i > Len(s)
    THEN <<cur>>
    ELSE IF i < Len(s) /\ s[i] = "\n" /\ s[i + 1] = "\n"
         THEN <<cur>> \o SplitParagraphsFrom(s, i + 2, <<>>)
         ELSE SplitParagraphsFrom(s, i + 1, Append(cur, s[i]))

SplitParagraphs(s) == SplitParagraphsFrom(s, 1, <<>>)

-----------------------------------------------------------------------------
(* TextChunker::chunk_by_paragraph *)

\* a chunker that starts the new buffer empty after a flush
RECURSIVE ChunkParasDropsPara(_, _, _, _)
ChunkParasDropsPara(paras, i, current_chunk, max) ==
    IF i > Len(paras)
    THEN IF ~IsBlank(current_chunk) THEN <<current_chunk>> ELSE <<>>
    ELSE LET para == paras[i] IN
         IF StrLen(current_chunk) + StrLen(para) > max
         THEN (IF ~IsBlank(current_chunk) THEN <<current_chunk>> ELSE <<>>)
              \o ChunkParasDropsPara(paras, i + 1, <<>>, max)
         ELSE ChunkParasDropsPara(paras, i + 1,
                         (IF current_chunk # <<>>
                          THEN current_chunk \o <<"\n", "\n">>
                          ELSE current_chunk) \o para,
                         max)

\* lines 239-258: the loop over the paragraphs and the final push
RECURSIVE ChunkParas(_, _, _, _)
ChunkParas(paras, i, current_chunk, max) ==
    IF i > Len(paras)
    THEN IF ~IsBlank(current_chunk) THEN <<current_chunk>> ELSE <<>>
    ELSE LET para == paras[i] IN
         IF StrLen(current_chunk) + StrLen(para) > max
         THEN (IF ~IsBlank(current_chunk) THEN <<current_chunk>> ELSE <<>>)
              \o ChunkParas(paras, i + 1, para, max)
         ELSE ChunkParas(paras, i + 1,
                         (IF current_chunk # <<>>
                          THEN current_chunk \o <<"\n", "\n">>
                          ELSE current_chunk) \o para,
                         max)

ChunkByParagraph(text, max) == ChunkParas(SplitParagraphs(text), 1, <<>>, max)

-----------------------------------------------------------------------------
(* RAGStore: an ordered sequence of Documents.  A Document is                *)
(* [id, content, doc_type, chapter, page_number].                           *)

\* the bytes of a doc_type written out by format!
TypeLen(t) ==
    CASE t = "knowledge" -> 9
      [] t = "example" -> 7
      [] t = "exercise" -> 8
      [] OTHER -> 5

\* type_weight of search, in tenths
TypeWeight(t) ==
    CASE t = "example" -> 15
      [] t = "knowledge" -> 12
      [] t = "exercise" -> 10
      [] OTHER -> 8

\* what becomes of a write of the index file (save): it is written; it
\* fails before the file is touched; it fails after fs::write has truncated
\* the file, and what is left does not deserialize
Writes == {"written", "failed", "cut"}

\* a save that writes the last document alone
PersistedLastOnly(disk, documents, saved) ==
    CASE saved = "written" -> SubSeq(documents, Len(documents), Len(documents))
      [] saved = "failed" -> disk
      [] saved = "cut" -> <<>>

\* lines 172-181 and 44-45: the documents a later RAGStore::new reads from
\* the index file after a save of documents over a file that held disk
Persisted(disk, documents, saved) ==
    CASE saved = "written" -> documents
      [] saved = "failed" -> disk
      [] saved = "cut" -> <<>>

\* a lookup of ids that misses the first document
HasIdButFirst(documents, id) == \E i \in 2..Len(documents) : documents[i].id = id

\* line 59
HasId(documents, id) == \E i \in 1..Len(documents) : documents[i].id = id

\* an add_document that writes the index file whether it pushed or not
AddDocumentAlwaysSaves(store, doc, saved) ==
    LET pushed == IF ~HasId(store.documents, doc.id)
                  THEN Append(store.documents, doc)
                  ELSE store.documents
    IN  [documents |-> pushed,
         disk |-> Persisted(store.disk, pushed, saved)]

\* RAGStore::add_document with save().ok(): saved tells what became of the
\* write of the index file.  Yields the store and the file.
AddDocument(store, doc, saved) ==
    IF ~HasId(store.documents, doc.id)
    THEN LET pushed == Append(store.documents, doc) IN
         [documents |-> pushed,
          disk |-> Persisted(store.disk, pushed, saved)]
    ELSE store

\* add_document for each of docs in turn; saves[i] is the outcome of the
\* i-th call's write, if it attempts one
RECURSIVE AddDocuments(_, _, _, _)
AddDocuments(store, docs, saves, i) ==
    IF i > Len(docs)
    THEN store
    ELSE AddDocuments(AddDocument(store, docs[i], saves[i]), docs, saves, i + 1)

\* number of query words that occur in the lowercased content
RECURSIVE MatchCount(_, _, _)
MatchCount(content_lower, query_words, i) ==
    IF i > Len(query_words)
    THEN 0
    ELSE (IF Contains(content_lower, query_words[i]) THEN 1 ELSE 0)
         + MatchCount(content_lower, query_words, i + 1)

Score(doc, query_words) ==
    MatchCount(ToLower(doc.content), query_words, 1) * TypeWeight(doc.doc_type)

\* the position an unstable sort may choose: before the results of equal
\* score
RECURSIVE InsertPosBeforeEqual(_, _, _)
InsertPosBeforeEqual(sorted, sc, i) ==
    IF i > Len(sorted) \/ sorted[i].score <= sc
    THEN i
    ELSE InsertPosBeforeEqual(sorted, sc, i + 1)

\* position at which a stable descending sort places a result of score sc
\* arriving after the results already in sorted
RECURSIVE InsertPos(_, _, _)
InsertPos(sorted, sc, i) ==
    IF i > Len(sorted) \/ sorted[i].score < sc
    THEN i
    ELSE InsertPos(sorted, sc, i + 1)

InsertAt(sorted, k, r) ==
    SubSeq(sorted, 1, k - 1) \o <<r>> \o SubSeq(sorted, k, Len(sorted))

RECURSIVE SortByScore(_, _, _)
SortByScore(results, i, sorted) ==
    IF i > Len(results)
    THEN sorted
    ELSE SortByScore(results, i + 1,
                     InsertAt(sorted, InsertPos(sorted, results[i].score, 1), results[i]))

RECURSIVE Scored(_, _, _)
Scored(documents, query_words, i) ==
    IF i > Len(documents)
    THEN <<>>
    ELSE LET sc == Score(documents[i], query_words) IN
         (IF sc > 0 THEN <<[document |-> documents[i], score |-> sc]>> ELSE <<>>)
         \o Scored(documents, query_words, i + 1)

\* a search that returns one result more than asked for
SearchOneMore(documents, query, top_k) ==
    LET query_words == SplitWhitespace(ToLower(query))
        results == SortByScore(Scored(documents, query_words, 1), 1, <<>>)
    IN  SubSeq(results, 1, Min(top_k + 1, Len(results)))

\* RAGStore::search
Search(documents, query, top_k) ==
    LET query_words == SplitWhitespace(ToLower(query))
        results == SortByScore(Scored(documents, query_words, 1), 1, <<>>)
    IN  SubSeq(results, 1, Min(top_k, Len(results)))

\* the doc_text of build_context
FormatDoc(doc) ==
    <<"<<", doc.doc_type, ">>">>
    \o (IF doc.chapter # <<>> THEN <<"((">> \o doc.chapter \o <<"))">> ELSE <<>>)
    \o <<"\n">> \o doc.content \o <<"\n", "\n">>

FormatLen(doc) ==
    3 + TypeLen(doc.doc_type) + 3
    + (IF doc.chapter # <<>> THEN 3 + StrLen(doc.chapter) + 3 ELSE 0)
    + 1 + StrLen(doc.content) + 2

\* String::len of a formatted text, in which a doc type is one element
RECURSIVE ContextLen(_)
ContextLen(s) ==
    IF s = <<>>
    THEN 0
    ELSE (IF Head(s) \in {"knowledge", "example", "exercise", "other"}
          THEN TypeLen(Head(s))
          ELSE ByteLen(Head(s)))
         + ContextLen(Tail(s))

\* a loop that passes over a candidate that does not fit and goes on
RECURSIVE ContextLoopSkips(_, _, _, _, _, _)
ContextLoopSkips(results, i, context, token_count, used, max_tokens) ==
    IF i > Len(results)
    THEN [context |-> context, token_count |-> token_count, used |-> used]
    ELSE LET doc == results[i].document
             doc_tokens == FormatLen(doc) \div 4
         IN  IF token_count + doc_tokens > max_tokens
             THEN ContextLoopSkips(results, i + 1, context, token_count, used,
                                   max_tokens)
             ELSE ContextLoopSkips(results, i + 1, context \o FormatDoc(doc),
                                   token_count + doc_tokens, Append(used, doc),
                                   max_tokens)

\* a loop that checks the estimate before it adds the candidate's tokens
RECURSIVE ContextLoopChecksBefore(_, _, _, _, _, _)
ContextLoopChecksBefore(results, i, context, token_count, used, max_tokens) ==
    IF i > Len(results)
    THEN [context |-> context, token_count |-> token_count, used |-> used]
    ELSE LET doc == results[i].document
             doc_tokens == FormatLen(doc) \div 4
         IN  IF token_count > max_tokens
             THEN [context |-> context, token_count |-> token_count, used |-> used]
             ELSE ContextLoopChecksBefore(results, i + 1, context \o FormatDoc(doc),
                              token_count + doc_tokens, Append(used, doc),
                              max_tokens)

\* the loop of build_context over the search results; used lists the
\* documents whose text was pushed
RECURSIVE ContextLoop(_, _, _, _, _, _)
ContextLoop(results, i, context, token_count, used, max_tokens) ==
    IF i > Len(results)
    THEN [context |-> context, token_count |-> token_count, used |-> used]
    ELSE LET doc == results[i].document
             doc_tokens == FormatLen(doc) \div 4
         IN  IF token_count + doc_tokens > max_tokens
             THEN [context |-> context, token_count |-> token_count, used |-> used]
             ELSE ContextLoop(results, i + 1, context \o FormatDoc(doc),
                              token_count + doc_tokens, Append(used, doc),
                              max_tokens)

\* a build_context that fills the budget with the hits that fit
BuildContextSkips(documents, query, max_tokens) ==
    ContextLoopSkips(Search(documents, query, ContextTopK), 1, <<>>, 0, <<>>, max_tokens)

\* RAGStore::build_context
BuildContext(documents, query, max_tokens) ==
    ContextLoop(Search(documents, query, ContextTopK), 1, <<>>, 0, <<>>, max_tokens)

-----------------------------------------------------------------------------
(* Session registry: ANALYSIS_STATE *)

\* the session start_analysis inserts
InitialState(total_pages) ==
    [progress |-> [status |-> "analyzing",
                   current_page |-> 0,
                   total_pages |-> total_pages,
                   current_step |-> "init",
                   questions_found |-> 0,
                   message |-> <<"preparing">>],
     should_stop |-> FALSE]

\* what get_analysis_progress answers for an id with no session
IdleProgress ==
    [status |-> "idle", current_page |-> 0, total_pages |-> 0,
     current_step |-> "", questions_found |-> 0, message |-> <<"not started">>]

\* an update that reaches the session of every file id
UpdateProgressAll(st, file_id, status, current_page, total_pages, message, questions_found) ==
    [f \in Files |->
        IF st[f] # NoSession
        THEN [st[f] EXCEPT !.progress =
                 [@ EXCEPT !.status = status,
                           !.current_page = current_page,
                           !.total_pages = total_pages,
                           !.message = message,
                           !.questions_found = questions_found]]
        ELSE st[f]]

\* update_progress: the registry after the call
UpdateProgress(st, file_id, status, current_page, total_pages, message, questions_found) ==
    IF st[file_id] # NoSession
    THEN [st EXCEPT ![file_id].progress =
             [@ EXCEPT !.status = status,
                       !.current_page = current_page,
                       !.total_pages = total_pages,
                       !.message = message,
                       !.questions_found = questions_found]]
    ELSE st

\* a check that goes by the status instead of the flag
ShouldStopByStatus(st, file_id) ==
    st[file_id] # NoSession /\ st[file_id].progress.status = "stopped"

\* the should_stop check of the batch-entry and page-entry checkpoints
ShouldStop(st, file_id) ==
    st[file_id] # NoSession /\ st[file_id].should_stop

\* positions of an invocation of start_analysis that has ended
Returned == {"ret_ok", "ret_stop", "ret_err", "panicked"}

Active(r) == runs[r].pc \notin ({"idle"} \cup Returned)

\* requests after stop_analysis(file_id): the invocations of file_id in
\* progress have a stop request pending (the code keeps no such record)
Requested(file_id) ==
    [r \in Runs |->
        IF states[file_id] # NoSession /\ Active(r) /\ runs[r].file_id = file_id
        THEN "pending"
        ELSE requests[r]]

\* requests after start_analysis(file_id) has inserted a new session: the
\* session that held the pending requests is gone
Overwritten(file_id) ==
    [r \in Runs |->
        IF requests[r] = "pending" /\ runs[r].file_id = file_id
        THEN "reset"
        ELSE requests[r]]

\* a stop request that also takes the progress back to page 0
StopAnalysisResets(file_id) ==
    /\ states' = IF states[file_id] # NoSession
                 THEN [states EXCEPT ![file_id].should_stop = TRUE,
                                     ![file_id].progress.status = "stopped",
                                     ![file_id].progress.current_page = 0,
                                     ![file_id].progress.message = <<"stopped">>]
                 ELSE states
    /\ requests' = Requested(file_id)
    /\ UNCHANGED <<meta, polled, rag_store, call, chunker, rag_index, snapshot, runs, faults>>

\* stop_analysis
StopAnalysis(file_id) ==
    /\ states' = IF states[file_id] # NoSession
                 THEN [states EXCEPT ![file_id].should_stop = TRUE,
                                     ![file_id].progress.status = "stopped",
                                     ![file_id].progress.message = <<"stopped">>]
                 ELSE states
    /\ requests' = Requested(file_id)
    /\ UNCHANGED <<meta, polled, rag_store, call, chunker, rag_index, snapshot, runs, faults>>

\* a get_analysis_progress that registers a session for an unknown id
GetAnalysisProgressRegisters(file_id) ==
    /\ polled' = [polled EXCEPT ![file_id] =
                     IF states[file_id] # NoSession
                     THEN states[file_id].progress
                     ELSE IdleProgress]
    /\ states' = IF states[file_id] # NoSession
                 THEN states
                 ELSE [states EXCEPT ![file_id] =
                          [progress |-> IdleProgress, should_stop |-> FALSE]]
    /\ UNCHANGED <<meta, rag_index, snapshot, runs, faults, rag_store, call, chunker, requests>>

\* get_analysis_progress: a copy of the session's progress, or the idle
\* record
GetAnalysisProgress(file_id) ==
    /\ polled' = [polled EXCEPT ![file_id] =
                     IF states[file_id] # NoSession
                     THEN states[file_id].progress
                     ELSE IdleProgress]
    /\ UNCHANGED <<meta, states, rag_index, snapshot, runs, faults, rag_store, call, chunker, requests>>

-----------------------------------------------------------------------------
(* What the collaborators can answer *)

NoMeta == [unreadable |-> TRUE]

\* page texts convert_page_to_markdown yields; a failed conversion is the
\* empty text (unwrap_or_default).  The pages of a document of more than
\* MaxPages pages all render empty.
Texts == {<<>>, <<"a">>}

PageTexts(total_pages) == IF ULe(total_pages, MaxPages) THEN Texts ELSE {<<>>}

\* an item of a completion reply: question, answer, chapter.  In a reply's
\* text the item is written as the character q.
ItemOf(c) == [question |-> <<"a">>, answer |-> <<"b">>, chapter |-> <<>>]

Items == {ItemOf("q")}

ItemSeqs == UNION {[1..n -> Items] : n \in 0..MaxItems}

\* the text of a reply that holds the items its: some words, then the JSON
\* object with the list
ReplyText(its) ==
    <<"x", "{", "[">> \o [i \in 1..Len(its) |-> "q"] \o <<"]", "}">>

\* a completion call fails, or answers a text: one that does not
\* deserialize, one whose last closing brace comes before its first opening
\* brace, or one with a JSON object that lists items
Replies ==
    {[kind |-> "err"],
     [kind |-> "garbage", text |-> <<"x">>],
     [kind |-> "reversed", text |-> <<"}", "x", "{">>]}
    \cup {[kind |-> "ok", text |-> ReplyText(its)] : its \in ItemSeqs}

-----------------------------------------------------------------------------
(* Failures the collaborators may still produce *)

MayFail(n) == faults + n <= MaxFaults

\* the writes among saves that fail
FailedSaves(saves) == Cardinality({i \in DOMAIN saves : saves[i] # "written"})

FailedReply(reply) == IF reply.kind = "ok" THEN 0 ELSE 1

-----------------------------------------------------------------------------
(* Response parser *)

\* str::find / str::rfind of a character: its first / last position counted
\* from 1, or 0 for None
Find(text, c) ==
    IF \E i \in 1..Len(text) : text[i] = c
    THEN CHOOSE i \in 1..Len(text) :
            text[i] = c /\ \A k \in 1..(i - 1) : text[k] # c
    ELSE 0

RFind(text, c) ==
    IF \E i \in 1..Len(text) : text[i] = c
    THEN CHOOSE i \in 1..Len(text) :
            text[i] = c /\ \A k \in (i + 1)..Len(text) : text[k] # c
    ELSE 0

\* an extract_json that ends at the first closing brace
ExtractJsonToFirstClose(text) ==
    LET start == Find(text, "{")
        end == Find(text, "}")
    IN  IF start # 0 /\ end # 0
        THEN IF start > end + 1
             THEN [panics |-> TRUE, text |-> <<>>]
             ELSE [panics |-> FALSE, text |-> SubSeq(text, start, end)]
        ELSE [panics |-> FALSE, text |-> text]

\* extract_json: the String returned, or the panic of the slice
\* text[start..=end], which fails when start > end + 1
ExtractJson(text) ==
    LET start == Find(text, "{")
        end == RFind(text, "}")
    IN  IF start # 0 /\ end # 0
        THEN IF start > end + 1
             THEN [panics |-> TRUE, text |-> <<>>]
             ELSE [panics |-> FALSE, text |-> SubSeq(text, start, end)]
        ELSE [panics |-> FALSE, text |-> text]


\* the decimal digits format! writes for an unsigned number; n is the
\* number's 32-bit pattern, and 2^32 = 429496729 * 10 + 6
DigitChar(d) ==
    CASE d = 0 -> "0" [] d = 1 -> "1" [] d = 2 -> "2" [] d = 3 -> "3"
      [] d = 4 -> "4" [] d = 5 -> "5" [] d = 6 -> "6" [] d = 7 -> "7"
      [] d = 8 -> "8" [] d = 9 -> "9"

RECURSIVE Digits(_)
Digits(n) ==
    IF n < 0
    THEN Digits(429496729 + ((n + 6) \div 10)) \o <<DigitChar((n + 6) % 10)>>
    ELSE IF n < 10
    THEN <<DigitChar(n)>>
    ELSE Digits(n \div 10) \o <<DigitChar(n % 10)>>

\* an id that leaves the type out
QuestionIdWithoutType(file_id, page, type, i) ==
    <<file_id, "_">> \o Digits(page) \o <<"_">> \o Digits(i)

\* lines 347 and 391: format!("{}_{}_example_{}", file_id, page, i) and its
\* exercise counterpart; file_id and the type are one element each
QuestionId(file_id, page, type, i) ==
    <<file_id, "_">> \o Digits(page) \o <<"_", type, "_">> \o Digits(i)

\* line 148: format!("{}_{}_{}", file_id, page, i)
KnowledgeId(file_id, page, i) ==
    <<file_id, "_">> \o Digits(page) \o <<"_">> \o Digits(i)

MakeQuestion(file_id, page, type, i, item) ==
    [id |-> QuestionId(file_id, page, type, i),
     file_id |-> file_id,
     question_type |-> type,
     chapter |-> item.chapter,
     question_text |-> item.question,
     answer |-> item.answer,
     page_number |-> page,
     has_original_answer |-> (type = "example")]

\* serde_json::from_str on the extracted text: the items of the object's
\* list, or Err
Deserialize(json) ==
    IF /\ Len(json) >= 4
       /\ json[1] = "{" /\ json[2] = "["
       /\ json[Len(json) - 1] = "]" /\ json[Len(json)] = "}"
       /\ \A k \in 3..(Len(json) - 2) : json[k] = "q"
    THEN [ok |-> TRUE, items |-> [k \in 1..(Len(json) - 4) |-> ItemOf(json[k + 2])]]
    ELSE [ok |-> FALSE, items |-> <<>>]

\* parse_examples_response / parse_exercises_response on the text of a
\* reply: the Questions, or Err, or the panic of extract_json
ParseResponse(json_str, file_id, page, type) ==
    LET json == ExtractJson(json_str)
        response == Deserialize(json.text)
    IN  IF json.panics
        THEN [ok |-> FALSE, panics |-> TRUE, questions |-> <<>>]
        ELSE [ok |-> response.ok,
              panics |-> FALSE,
              questions |-> [i \in 1..Len(response.items) |->
                                MakeQuestion(file_id, page, type, i - 1,
                                             response.items[i])]]

\* a completion call's text makes the parser panic
ParsePanics(reply) ==
    reply.kind # "err" /\ ExtractJson(reply.text).panics

\* the Questions a completion call adds to all_questions
Extracted(reply, file_id, page, type) ==
    IF reply.kind # "err"
    THEN ParseResponse(reply.text, file_id, page, type).questions
    ELSE <<>>

\* a knowledge Document filed under the page after its own
KnowledgeDocNextPage(file_id, page, i, chunk) ==
    [id |-> KnowledgeId(file_id, page, i),
     content |-> chunk,
     doc_type |-> "knowledge",
     chapter |-> <<>>,
     page_number |-> UAdd(page, 1)]

\* lines 149-158
KnowledgeDoc(file_id, page, i, chunk) ==
    [id |-> KnowledgeId(file_id, page, i),
     content |-> chunk,
     doc_type |-> "knowledge",
     chapter |-> <<>>,
     page_number |-> page]

ExampleDoc(file_id, page, q) ==
    [id |-> q.id,
     content |-> <<"ti", "mu", "::">> \o q.question_text
                 \o <<"\n", "da", "an", "::">> \o q.answer,
     doc_type |-> "example",
     chapter |-> q.chapter,
     page_number |-> page]

-----------------------------------------------------------------------------
(* start_analysis: one invocation per element of Runs.  Each step is one    *)
(* critical section on ANALYSIS_STATE, one file operation or one awaited    *)
(* call together with the local code that follows it.                       *)
(* The fields n_batches, prev_end, last_visited, calls, used and opened     *)
(* record what the invocation did; the code does not read them:             *)
(*   n_batches     batches entered so far                                   *)
(*   batch_start   first page of the batch entered last                     *)
(*   prev_end      batch_end of the batch before that one (0: none)         *)
(*   last_visited  last page that passed the page-entry checkpoint (0: none)*)
(*   calls         the completion calls made, with their replies            *)
(*   used          the page the last context was built for, and the         *)
(*                 Documents it was built from                              *)
(*   found         the result snapshot of the file when the run started     *)
(*   opened        number of Documents the store held when it was loaded    *)
(*   wrapped       a u32 sum of the batch loop has wrapped around; the      *)
(*                 model does not follow the run past that point            *)

IdleRun ==
    [pc |-> "idle", file_id |-> "none", total_pages |-> 0, has_model |-> FALSE,
     documents |-> <<>>, batch_size |-> 0, current_batch_start |-> 0,
     batch_end |-> 0, page |-> 0, markdown_content |-> <<>>,
     all_questions |-> <<>>, context |-> <<>>,
     opened |-> 0, n_batches |-> 0, batch_start |-> 0, prev_end |-> 0,
     last_visited |-> 0, calls |-> <<>>, used |-> [page |-> 0, docs |-> <<>>],
     found |-> NoFile, wrapped |-> FALSE]

\* invocation r is about to run the step named pc
At(r, pc) == runs[r].pc = pc /\ ~runs[r].wrapped

\* the next invocation takes the first unused element of Runs
NextSlot(r) == runs[r].pc = "idle" /\ (r = "r2" => runs["r1"].pc # "idle")

\* the caller issues start for a file id only when no run of that id is in
\* progress
CallerSerializesStarts(file_id) ==
    \A r \in Runs : Active(r) => runs[r].file_id # file_id

\* lines 40-73: read meta.json, register the session
StartRun(r, file_id) ==
    /\ NextSlot(r)
    /\ IF meta[file_id] = NoMeta
       THEN /\ runs' = [runs EXCEPT ![r].pc = "ret_err", ![r].file_id = file_id]
            /\ UNCHANGED <<states, requests>>
       ELSE /\ states' = [states EXCEPT ![file_id] = InitialState(meta[file_id].total_pages)]
            /\ runs' = [runs EXCEPT ![r].pc = "open",
                                    ![r].file_id = file_id,
                                    ![r].total_pages = meta[file_id].total_pages,
                                    ![r].found = snapshot[file_id]]
            /\ requests' = Overwritten(file_id)
    /\ UNCHANGED <<meta, polled, rag_store, call, chunker, rag_index, snapshot, faults>>

StartAnalysis(r, file_id) ==
    /\ CallerSerializesStarts(file_id)
    /\ StartRun(r, file_id)

\* a choice of batch size that batches from the threshold on
BatchSizeFromThreshold(total_pages) ==
    IF ULe(BatchThreshold, total_pages) THEN BatchPages ELSE total_pages

\* lines 89-90
BatchSize(total_pages) ==
    IF ULt(BatchThreshold, total_pages) THEN BatchPages ELSE total_pages

\* lines 76-93: read the configuration, load the store, create the
\* questions directory, set up the batch loop
OpenStore(r) ==
    /\ At(r, "open")
    /\ \E has_model \in BOOLEAN, dir_ok \in BOOLEAN :
        /\ dir_ok \/ MayFail(1)
        /\ faults' = IF dir_ok THEN faults ELSE faults + 1
        /\ runs' = [runs EXCEPT ![r] =
              IF dir_ok
              THEN [@ EXCEPT !.pc = "batch_entry",
                             !.has_model = has_model,
                             !.documents = rag_index[runs[r].file_id],
                             !.opened = Len(rag_index[runs[r].file_id]),
                             !.batch_size = BatchSize(runs[r].total_pages),
                             !.current_batch_start = 1]
              ELSE [@ EXCEPT !.pc = "ret_err"]]
    /\ UNCHANGED <<meta, polled, rag_store, call, chunker, requests, states, rag_index, snapshot>>

\* lines 96-105: the loop condition and the batch-entry checkpoint
BatchEntry(r) ==
    /\ At(r, "batch_entry")
    /\ runs' = [runs EXCEPT ![r].pc =
           IF ~ULe(runs[r].current_batch_start, runs[r].total_pages) THEN "save"
           ELSE IF ShouldStop(states, runs[r].file_id) THEN "ret_stop"
           ELSE "batch_update"]
    /\ UNCHANGED <<meta, polled, rag_store, call, chunker, requests, states, rag_index, snapshot, faults>>

\* line 107, in u32: whether the sum or the difference leaves u32, and
\* the value when both wrap
BatchEndOverflows(start, size) ==
    UAddOverflows(start, size) \/ UDecOverflows(UAdd(start, size))

BatchEnd(start, size, total_pages) ==
    UMin(UDec(UAdd(start, size)), total_pages)

\* line 217 and the loop head: the run after the pages of the batch
NextBatch(run, checked) ==
    IF UAddOverflows(run.batch_end, 1) /\ checked
    THEN [run EXCEPT !.pc = "panicked"]
    ELSE [run EXCEPT !.pc = "batch_entry",
                     !.current_batch_start = UAdd(run.batch_end, 1),
                     !.wrapped = @ \/ UAddOverflows(run.batch_end, 1)]

\* the run after the body of a page: the next page of the range, or the
\* next batch
AfterPage(run, checked) ==
    IF ULt(run.page, run.batch_end)
    THEN [run EXCEPT !.pc = "page_entry", !.page = UAdd(run.page, 1)]
    ELSE NextBatch(run, checked)

\* lines 107-120: batch_end, the batch's progress update, the page range.
\* An overflowing sum panics in a build with overflow checks and wraps in
\* one without.
BatchUpdate(r) ==
    /\ At(r, "batch_update")
    /\ \E checked \in BOOLEAN :
        LET run == runs[r]
            batch_end == BatchEnd(run.current_batch_start, run.batch_size, run.total_pages)
            entered == [run EXCEPT !.batch_end = batch_end,
                                   !.page = run.current_batch_start,
                                   !.n_batches = @ + 1,
                                   !.batch_start = run.current_batch_start,
                                   !.prev_end = run.batch_end,
                                   !.wrapped = BatchEndOverflows(run.current_batch_start,
                                                                 run.batch_size)]
        IN  IF BatchEndOverflows(run.current_batch_start, run.batch_size) /\ checked
            THEN /\ runs' = [runs EXCEPT ![r].pc = "panicked"]
                 /\ UNCHANGED states
            ELSE /\ states' = UpdateProgress(states, run.file_id, "analyzing",
                                             run.current_batch_start, run.total_pages,
                                             <<"batch", run.current_batch_start, batch_end>>,
                                             Len(run.all_questions))
                 /\ runs' = [runs EXCEPT ![r] =
                        IF ULe(run.current_batch_start, batch_end)
                        THEN [entered EXCEPT !.pc = "page_entry"]
                        ELSE NextBatch(entered, checked)]
    /\ UNCHANGED <<meta, polled, rag_store, call, chunker, requests, rag_index, snapshot, faults>>

\* a page-entry checkpoint that leaves the loop on a stop request and goes
\* on to write the snapshot
PageEntryBreaks(r) ==
    /\ At(r, "page_entry")
    /\ runs' = [runs EXCEPT ![r] =
           IF ShouldStop(states, runs[r].file_id)
           THEN [@ EXCEPT !.pc = "save"]
           ELSE [@ EXCEPT !.pc = "fetch", !.last_visited = runs[r].page]]
    /\ UNCHANGED <<meta, polled, rag_store, call, chunker, requests, states, rag_index, snapshot, faults>>

\* lines 120-129: the page-entry checkpoint
PageEntry(r) ==
    /\ At(r, "page_entry")
    /\ runs' = [runs EXCEPT ![r] =
           IF ShouldStop(states, runs[r].file_id)
           THEN [@ EXCEPT !.pc = "ret_stop"]
           ELSE [@ EXCEPT !.pc = "fetch", !.last_visited = runs[r].page]]
    /\ UNCHANGED <<meta, polled, rag_store, call, chunker, requests, states, rag_index, snapshot, faults>>

\* a page-text fetch that a stop request interrupts
FetchPageInterrupted(r) ==
    /\ At(r, "fetch")
    /\ \E text \in PageTexts(runs[r].total_pages), checked \in BOOLEAN :
          runs' = [runs EXCEPT ![r] =
              IF ShouldStop(states, runs[r].file_id)
              THEN [@ EXCEPT !.pc = "ret_stop"]
              ELSE IF IsBlank(text)
              THEN AfterPage([@ EXCEPT !.markdown_content = text], checked)
              ELSE [@ EXCEPT !.pc = "chunks", !.markdown_content = text]]
    /\ UNCHANGED <<meta, polled, rag_store, call, chunker, requests, states, rag_index, snapshot, faults>>

\* lines 131-142: the page's text; a blank page is skipped
FetchPage(r) ==
    /\ At(r, "fetch")
    /\ \E text \in PageTexts(runs[r].total_pages), checked \in BOOLEAN :
          runs' = [runs EXCEPT ![r] =
              IF IsBlank(text)
              THEN AfterPage([@ EXCEPT !.markdown_content = text], checked)
              ELSE [@ EXCEPT !.pc = "chunks", !.markdown_content = text]]
    /\ UNCHANGED <<meta, polled, rag_store, call, chunker, requests, states, rag_index, snapshot, faults>>

\* lines 144-161: chunk the text, add each chunk as a knowledge Document
InsertChunks(r) ==
    /\ At(r, "chunks")
    /\ LET run == runs[r]
           chunks == ChunkByParagraph(run.markdown_content, ChunkSize)
           docs == [i \in 1..Len(chunks) |->
                       KnowledgeDoc(run.file_id, run.page, i - 1, chunks[i])]
       IN  \E saves \in [1..Len(docs) -> Writes] :
             LET store == AddDocuments([documents |-> run.documents,
                                        disk |-> rag_index[run.file_id]],
                                       docs, saves, 1)
             IN  /\ MayFail(FailedSaves(saves))
                 /\ faults' = faults + FailedSaves(saves)
                 /\ runs' = [runs EXCEPT ![r].pc = "page_update",
                                         ![r].documents = store.documents]
                 /\ rag_index' = [rag_index EXCEPT ![run.file_id] = store.disk]
    /\ UNCHANGED <<meta, polled, rag_store, call, chunker, requests, states, snapshot>>

\* lines 163-174: the page's progress update; without a model the page ends
PageUpdate(r) ==
    /\ At(r, "page_update")
    /\ LET run == runs[r] IN
       /\ states' = UpdateProgress(states, run.file_id, "analyzing", run.page,
                                   run.total_pages, <<"page", run.page>>,
                                   Len(run.all_questions))
       /\ \E checked \in BOOLEAN :
             runs' = [runs EXCEPT ![r] =
                 IF run.has_model
                 THEN [@ EXCEPT !.pc = "examples"]
                 ELSE AfterPage(run, checked)]
    /\ UNCHANGED <<meta, polled, rag_store, call, chunker, requests, rag_index, snapshot, faults>>

\* an example call whose failure ends the run with the error
ExamplesStepAborts(r, reply, saves) ==
    LET run == runs[r]
        questions == Extracted(reply, run.file_id, run.page, "example")
        docs == [i \in 1..Len(questions) |->
                    ExampleDoc(run.file_id, run.page, questions[i])]
        store == AddDocuments([documents |-> run.documents,
                               disk |-> rag_index[run.file_id]],
                              docs, saves, 1)
    IN  /\ MayFail(FailedReply(reply) + FailedSaves(saves))
        /\ faults' = faults + FailedReply(reply) + FailedSaves(saves)
        /\ runs' = [runs EXCEPT
               ![r].pc = IF reply.kind = "ok" THEN "exercises" ELSE "ret_err",
               ![r].documents = store.documents,
               ![r].all_questions = @ \o questions,
               ![r].calls = Append(@, [page |-> run.page, type |-> "example",
                                       reply |-> reply])]
        /\ rag_index' = [rag_index EXCEPT ![run.file_id] = store.disk]
        /\ UNCHANGED <<meta, polled, rag_store, call, chunker, requests, states, snapshot>>

\* lines 181-203: the example call answered by reply; each example becomes
\* a Document and a Question.  A failed call or parse adds nothing; a panic
\* of the parser ends the invocation.
ExamplesStep(r, reply, saves) ==
    LET run == runs[r]
        questions == Extracted(reply, run.file_id, run.page, "example")
        docs == [i \in 1..Len(questions) |->
                    ExampleDoc(run.file_id, run.page, questions[i])]
        store == AddDocuments([documents |-> run.documents,
                               disk |-> rag_index[run.file_id]],
                              docs, saves, 1)
    IN  /\ MayFail(FailedReply(reply) + FailedSaves(saves))
        /\ faults' = faults + FailedReply(reply) + FailedSaves(saves)
        /\ runs' = [runs EXCEPT
               ![r].pc = IF ParsePanics(reply) THEN "panicked" ELSE "exercises",
               ![r].documents = store.documents,
               ![r].all_questions = @ \o questions,
               ![r].calls = Append(@, [page |-> run.page, type |-> "example",
                                       reply |-> reply])]
        /\ rag_index' = [rag_index EXCEPT ![run.file_id] = store.disk]
        /\ UNCHANGED <<meta, polled, rag_store, call, chunker, requests, states, snapshot>>

AnalyzeExamples(r) ==
    /\ At(r, "examples")
    /\ \E reply \in Replies :
         \E saves \in [1..Len(Extracted(reply, runs[r].file_id, runs[r].page, "example"))
                       -> Writes] :
            ExamplesStep(r, reply, saves)

\* lines 205-215: the context, the exercise call, the end of the page
AnalyzeExercises(r) ==
    /\ At(r, "exercises")
    /\ LET run == runs[r]
           built == BuildContext(run.documents, run.markdown_content, ContextTokens)
       IN  \E reply \in Replies, checked \in BOOLEAN :
             /\ MayFail(FailedReply(reply))
             /\ faults' = faults + FailedReply(reply)
             /\ LET called == [run EXCEPT
                     !.context = built.context,
                     !.used = [page |-> run.page, docs |-> built.used],
                     !.all_questions = @ \o Extracted(reply, run.file_id, run.page, "exercise"),
                     !.calls = Append(@, [page |-> run.page, type |-> "exercise",
                                          reply |-> reply])]
                IN  runs' = [runs EXCEPT ![r] =
                        IF ParsePanics(reply)
                        THEN [called EXCEPT !.pc = "panicked"]
                        ELSE AfterPage(called, checked)]
    /\ UNCHANGED <<meta, polled, rag_store, call, chunker, requests, states, rag_index, snapshot>>

\* a snapshot write that keeps the first Question only
SaveQuestionsCut(r) ==
    /\ At(r, "save")
    /\ \E written \in BOOLEAN :
          IF written
          THEN /\ snapshot' = [snapshot EXCEPT ![runs[r].file_id] =
                                  SubSeq(runs[r].all_questions, 1,
                                         Min(1, Len(runs[r].all_questions)))]
               /\ runs' = [runs EXCEPT ![r].pc = "final"]
               /\ UNCHANGED faults
          ELSE /\ MayFail(1)
               /\ faults' = faults + 1
               /\ runs' = [runs EXCEPT ![r].pc = "ret_err"]
               /\ UNCHANGED snapshot
    /\ UNCHANGED <<meta, polled, rag_store, call, chunker, requests, states, rag_index>>

\* lines 220-222: write all_questions.json; a failed write returns the error
SaveQuestions(r) ==
    /\ At(r, "save")
    /\ \E written \in BOOLEAN :
          IF written
          THEN /\ snapshot' = [snapshot EXCEPT ![runs[r].file_id] = runs[r].all_questions]
               /\ runs' = [runs EXCEPT ![r].pc = "final"]
               /\ UNCHANGED faults
          ELSE /\ MayFail(1)
               /\ faults' = faults + 1
               /\ runs' = [runs EXCEPT ![r].pc = "ret_err"]
               /\ UNCHANGED snapshot
    /\ UNCHANGED <<meta, polled, rag_store, call, chunker, requests, states, rag_index>>

\* lines 224-234: the final progress update
FinalProgress(r) ==
    /\ At(r, "final")
    /\ states' = UpdateProgress(states, runs[r].file_id, "completed",
                                runs[r].total_pages, runs[r].total_pages,
                                <<"done">>, Len(runs[r].all_questions))
    /\ runs' = [runs EXCEPT ![r].pc = "ret_ok"]
    /\ UNCHANGED <<meta, polled, rag_store, call, chunker, requests, rag_index, snapshot, faults>>

-----------------------------------------------------------------------------
(* Specifications *)

\* Nothing has run yet.  File f1 is absent or a document of at most
\* MaxPages pages; file f2 is absent.
SmallMeta == {NoMeta} \cup {[total_pages |-> n] : n \in 0..MaxPages}

Init ==
    /\ meta \in [Files -> SmallMeta]
    /\ meta["f2"] = NoMeta
    /\ states = [f \in Files |-> NoSession]
    /\ rag_index = [f \in Files |-> <<>>]
    /\ snapshot = [f \in Files |-> NoFile]
    /\ runs = [r \in Runs |-> IdleRun]
    /\ faults = 0
    /\ polled = [f \in Files |-> NoReply]
    /\ requests = [r \in Runs |-> "none"]
    /\ rag_store = ClosedStore
    /\ call = NoCall
    /\ chunker = IdleChunker

RunStep(r) ==
    \/ OpenStore(r)
    \/ BatchEntry(r)
    \/ BatchUpdate(r)
    \/ PageEntry(r)
    \/ FetchPage(r)
    \/ InsertChunks(r)
    \/ PageUpdate(r)
    \/ AnalyzeExamples(r)
    \/ AnalyzeExercises(r)
    \/ SaveQuestions(r)
    \/ FinalProgress(r)

Next ==
    \/ \E r \in Runs, f \in Files : StartAnalysis(r, f)
    \/ \E f \in Files : StopAnalysis(f)
    \/ \E r \in Runs : RunStep(r)

Spec == Init /\ [][Next]_vars

\* Documents around the batching threshold and at the top of u32, one run.
\* A start for the absent file f2 has failed before, so one invocation is
\* left.
FailedStart == [IdleRun EXCEPT !.pc = "ret_err", !.file_id = "f2"]

LargePages == (BatchThreshold - 1)..(BatchThreshold + BigSpan)

InitLarge ==
    /\ \E n \in (0..MaxPages) \cup LargePages :
          meta = [f \in Files |-> IF f = "f1" THEN [total_pages |-> n] ELSE NoMeta]
    /\ states = [f \in Files |-> NoSession]
    /\ rag_index = [f \in Files |-> <<>>]
    /\ snapshot = [f \in Files |-> NoFile]
    /\ runs = [r \in Runs |-> IF r = "r1" THEN FailedStart ELSE IdleRun]
    /\ faults = 0
    /\ polled = [f \in Files |-> NoReply]
    /\ requests = [r \in Runs |-> "none"]
    /\ rag_store = ClosedStore
    /\ call = NoCall
    /\ chunker = IdleChunker

\* The top of u32: total_pages is one of the last TopSpan values, written
\* as its pattern.  The run of f1 has gone through every batch up to page
\* 4294967260 (pattern -36), all of whose pages rendered empty, and is at
\* the head of the batch loop.
TopPages == (-TopSpan)..(-1)

NearMaxRun(total_pages, has_model) ==
    [IdleRun EXCEPT !.pc = "batch_entry", !.file_id = "f1",
                    !.total_pages = total_pages, !.has_model = has_model,
                    !.batch_size = BatchSize(total_pages),
                    !.current_batch_start = -35, !.batch_end = -36, !.page = -36,
                    !.n_batches = 214748363, !.batch_start = -55,
                    !.prev_end = -56, !.last_visited = -36]

InitNearMax ==
    \E n \in TopPages, has_model \in BOOLEAN :
        /\ meta = [f \in Files |-> IF f = "f1" THEN [total_pages |-> n] ELSE NoMeta]
        /\ states = [f \in Files |->
               IF f = "f1"
               THEN UpdateProgress([g \in Files |-> InitialState(n)], f, "analyzing",
                                   -55, n, <<"batch", -55, -36>>, 0)[f]
               ELSE NoSession]
        /\ rag_index = [f \in Files |-> <<>>]
        /\ snapshot = [f \in Files |-> NoFile]
        /\ runs = [r \in Runs |-> IF r = "r1" THEN FailedStart
                                                ELSE NearMaxRun(n, has_model)]
        /\ faults = 0
        /\ polled = [f \in Files |-> NoReply]
        /\ requests = [r \in Runs |-> "none"]
        /\ rag_store = ClosedStore
        /\ call = NoCall
        /\ chunker = IdleChunker

InitBatch == InitLarge \/ InitNearMax

SpecBatch == InitBatch /\ [][Next]_vars

\* One run of f1 with a caller that polls the progress of both files: a
\* start for the absent file f2 has failed before.
InitPoll ==
    /\ meta \in [Files -> SmallMeta]
    /\ meta["f2"] = NoMeta
    /\ states = [f \in Files |-> NoSession]
    /\ rag_index = [f \in Files |-> <<>>]
    /\ snapshot = [f \in Files |-> NoFile]
    /\ runs = [r \in Runs |-> IF r = "r1" THEN FailedStart ELSE IdleRun]
    /\ faults = 0
    /\ polled = [f \in Files |-> NoReply]
    /\ requests = [r \in Runs |-> "none"]
    /\ rag_store = ClosedStore
    /\ call = NoCall
    /\ chunker = IdleChunker

NextPoll ==
    \/ \E r \in Runs, f \in Files : StartAnalysis(r, f)
    \/ \E f \in Files : StopAnalysis(f)
    \/ \E r \in Runs : RunStep(r)
    \/ \E f \in Files : GetAnalysisProgress(f)

SpecPoll == InitPoll /\ [][NextPoll]_vars

\* Starts that the caller does not serialize: a start for a file id may
\* come while a run of that id is in progress.  Document f1 has one page
\* or more and no collaborator fails.
InitRace ==
    /\ \E n \in 1..MaxPages :
          meta = [f \in Files |-> IF f = "f1" THEN [total_pages |-> n] ELSE NoMeta]
    /\ states = [f \in Files |-> NoSession]
    /\ rag_index = [f \in Files |-> <<>>]
    /\ snapshot = [f \in Files |-> NoFile]
    /\ runs = [r \in Runs |-> IdleRun]
    /\ faults = MaxFaults
    /\ polled = [f \in Files |-> NoReply]
    /\ requests = [r \in Runs |-> "none"]
    /\ rag_store = ClosedStore
    /\ call = NoCall
    /\ chunker = IdleChunker

NextRace ==
    \/ \E r \in Runs, f \in Files : StartRun(r, f)
    \/ \E f \in Files : StopAnalysis(f)
    \/ \E r \in Runs : RunStep(r)

SpecRace == InitRace /\ [][NextRace]_vars

-----------------------------------------------------------------------------
(* The retrieval store on its own *)

\* number of calls made on the store in a behaviour
MaxCalls == 4

\* nothing of the pipeline is running
PipelineIdle ==
    /\ meta = [f \in Files |-> NoMeta]
    /\ states = [f \in Files |-> NoSession]
    /\ rag_index = [f \in Files |-> <<>>]
    /\ snapshot = [f \in Files |-> NoFile]
    /\ runs = [r \in Runs |-> IdleRun]
    /\ faults = 0
    /\ polled = [f \in Files |-> NoReply]
    /\ requests = [r \in Runs |-> "none"]

pipeline == <<meta, states, rag_index, snapshot, runs, faults, polled, requests>>

DocIds == {"d1", "d2"}

StoreDocs ==
    {[id |-> i, content |-> c, doc_type |-> "knowledge", chapter |-> <<>>,
      page_number |-> 1] : i \in DocIds, c \in {<<"a">>, <<"b">>}}

StoreDocSeqs == {<<>>} \cup {<<d>> : d \in StoreDocs}
                \cup {<<d, e>> : d \in StoreDocs, e \in StoreDocs}

Called(op, args, result) ==
    [n |-> call.n + 1, op |-> op, args |-> args, result |-> result]

\* RAGStore::new: the documents are what the index file holds
StoreNew ==
    /\ call.n < MaxCalls
    /\ rag_store' = [open |-> TRUE, documents |-> rag_store.disk,
                     disk |-> rag_store.disk]
    /\ call' = Called("new", <<>>, <<>>)
    /\ UNCHANGED <<pipeline, chunker>>

\* add_document(doc) on the open store; the call records doc and what became
\* of the write
StoreAddDocument(doc, saved) ==
    /\ call.n < MaxCalls
    /\ rag_store.open
    /\ LET added == AddDocument([documents |-> rag_store.documents,
                                 disk |-> rag_store.disk], doc, saved)
       IN  rag_store' = [open |-> TRUE, documents |-> added.documents,
                        disk |-> added.disk]
    /\ call' = Called("add_document", <<doc, saved>>, <<>>)
    /\ UNCHANGED <<pipeline, chunker>>

\* add_documents(docs) on the open store
StoreAddDocuments(docs, saves) ==
    /\ call.n < MaxCalls
    /\ rag_store.open
    /\ LET added == AddDocuments([documents |-> rag_store.documents,
                                  disk |-> rag_store.disk], docs, saves, 1)
       IN  rag_store' = [open |-> TRUE, documents |-> added.documents,
                        disk |-> added.disk]
    /\ call' = Called("add_documents", <<docs, saves>>, <<>>)
    /\ UNCHANGED <<pipeline, chunker>>

InitStore ==
    /\ PipelineIdle
    /\ rag_store = ClosedStore
    /\ call = NoCall
    /\ chunker = IdleChunker

NextStore ==
    \/ StoreNew
    \/ \E doc \in StoreDocs, saved \in Writes : StoreAddDocument(doc, saved)
    \/ \E docs \in StoreDocSeqs :
          \E saves \in [1..Len(docs) -> Writes] : StoreAddDocuments(docs, saves)

SpecStore == InitStore /\ [][NextStore]_vars

-----------------------------------------------------------------------------
(* search and build_context on a given store *)

\* number of documents of the store, largest top_k
MaxDocs == 3
MaxTopK == 2

SearchTypes == {"example", "knowledge", "exercise", "other"}

SearchContents == {<<"a">>, <<"A", "b">>}

Queries == {<<>>, <<" ">>, <<"a">>, <<"B">>, <<"a", " ", "b">>, <<"c">>}

\* budgets of build_context: small ones, and one that holds more than
\* ContextTopK of the shortest texts
Budgets == {0, 4, 8, 4 * ContextTopK}

\* a store of one document more than build_context asks search for
LongStore == [i \in 1..(ContextTopK + 1) |-> <<<<"a">>, "other">>]

\* the i-th document of a store has id i
SearchStores ==
    UNION {[1..n -> SearchContents \X SearchTypes] : n \in 0..MaxDocs}
    \cup {LongStore}

StoreOf(choice) ==
    [i \in 1..Len(choice) |->
        [id |-> i, content |-> choice[i][1], doc_type |-> choice[i][2],
         chapter |-> <<>>, page_number |-> i]]

InitSearch ==
    /\ PipelineIdle
    /\ \E choice \in SearchStores :
          rag_store = [open |-> TRUE, documents |-> StoreOf(choice),
                       disk |-> StoreOf(choice)]
    /\ call = NoCall
    /\ chunker = IdleChunker

\* search(query, top_k) on the store
StoreSearch(query, top_k) ==
    /\ call.n = 0
    /\ call' = Called("search", <<query, top_k>>,
                      Search(rag_store.documents, query, top_k))
    /\ UNCHANGED <<pipeline, rag_store, chunker>>

\* build_context(query, max_tokens) on the store
StoreBuildContext(query, max_tokens) ==
    /\ call.n = 0
    /\ call' = Called("build_context", <<query, max_tokens>>,
                      BuildContext(rag_store.documents, query, max_tokens).context)
    /\ UNCHANGED <<pipeline, rag_store, chunker>>

NextSearch ==
    \/ \E query \in Queries, top_k \in 0..MaxTopK : StoreSearch(query, top_k)
    \/ \E query \in Queries, max_tokens \in Budgets :
          StoreBuildContext(query, max_tokens)

SpecSearch == InitSearch /\ [][NextSearch]_vars

-----------------------------------------------------------------------------
(* chunk_by_paragraph on a given text *)

\* longest text, largest chunk_size
MaxTextLen == 5
MaxChunkSize == 4

ChunkChars == {"a", "ti", " ", "\n"}

ChunkTexts == UNION {[1..n -> ChunkChars] : n \in 0..MaxTextLen}

InitChunk ==
    /\ PipelineIdle
    /\ rag_store = ClosedStore
    /\ call = NoCall
    /\ chunker = IdleChunker

\* TextChunker::new(chunk_size, _).chunk_by_paragraph(text)
ChunkCall(text, chunk_size) ==
    /\ call.n = 0
    /\ call' = Called("chunk_by_paragraph", <<text, chunk_size>>,
                      ChunkByParagraph(text, chunk_size))
    /\ UNCHANGED <<pipeline, rag_store, chunker>>

NextChunk ==
    \E text \in ChunkTexts, chunk_size \in 0..MaxChunkSize : ChunkCall(text, chunk_size)

SpecChunk == InitChunk /\ [][NextChunk]_vars

-----------------------------------------------------------------------------
(* TextChunker::chunk on a given text, one loop iteration per step.  The    *)
(* text is its Vec<char>.  A usize is written as its pattern read in two's  *)
(* complement, as u32 is: a negative start is one that wrapped around.      *)

\* longest text, largest chunk_size and overlap
MaxWindowLen == 4
MaxWindowSize == 3
\* windows counts the iterations of the loop up to MaxWindows; a call holds
\* at most MaxWindows chunks in the model
MaxWindows == 6

WindowChars == {"a", " "}

WindowTexts == UNION {[1..n -> WindowChars] : n \in 0..MaxWindowLen}

\* lines 207-216: TextChunker::new(chunk_size, overlap).chunk(text) up to
\* the loop
ChunkEnter(text, chunk_size, overlap) ==
    /\ chunker.pc = "idle"
    /\ chunker' = [pc |-> "loop", text |-> text, chunk_size |-> chunk_size,
                   overlap |-> overlap, start |-> 0, chunks |-> <<>>,
                   windows |-> 0]
    /\ UNCHANGED <<pipeline, rag_store, call>>

\* line 217: the loop condition holds, the body is entered
ChunkTest ==
    /\ chunker.pc = "loop"
    /\ ULt(chunker.start, Len(chunker.text))
    /\ chunker' = [chunker EXCEPT !.pc = "window"]
    /\ UNCHANGED <<pipeline, rag_store, call>>

\* lines 218-229: the body of the while loop.  A subtraction that leaves
\* usize panics in a build with overflow checks and wraps in one without.
\* Of the chunks pushed the first MaxWindows are kept, and windows counts
\* the iterations up to MaxWindows.
ChunkWindow ==
    /\ chunker.pc = "window"
    /\ LET end == Min(chunker.start + chunker.chunk_size, Len(chunker.text))
           chunk == SubSeq(chunker.text, chunker.start + 1, end)
           pushed == [chunker EXCEPT
                         !.chunks = IF ~IsBlank(chunk) /\ Len(@) < MaxWindows
                                    THEN Append(@, chunk) ELSE @,
                         !.windows = Min(@ + 1, MaxWindows)]
       IN  \E checked \in BOOLEAN :
             chunker' =
                 IF end >= Len(chunker.text)
                 THEN [pushed EXCEPT !.pc = "done"]
                 ELSE IF end < chunker.overlap /\ checked
                 THEN [pushed EXCEPT !.pc = "panicked"]
                 ELSE [pushed EXCEPT !.pc = "loop", !.start = end - chunker.overlap]
    /\ UNCHANGED <<pipeline, rag_store, call>>

\* lines 217 and 232: the loop condition fails, chunks is returned
ChunkReturn ==
    /\ chunker.pc = "loop"
    /\ ~ULt(chunker.start, Len(chunker.text))
    /\ chunker' = [chunker EXCEPT !.pc = "done"]
    /\ UNCHANGED <<pipeline, rag_store, call>>

InitWindow ==
    /\ PipelineIdle
    /\ rag_store = ClosedStore
    /\ call = NoCall
    /\ chunker = IdleChunker

NextWindow ==
    \/ \E text \in WindowTexts, chunk_size \in 0..MaxWindowSize,
          overlap \in 0..MaxWindowSize : ChunkEnter(text, chunk_size, overlap)
    \/ ChunkTest
    \/ ChunkWindow
    \/ ChunkReturn

\* chunk is synchronous code: a call that can take a step takes it
SpecWindow ==
    /\ InitWindow /\ [][NextWindow]_vars
    /\ WF_vars(ChunkTest) /\ WF_vars(ChunkWindow) /\ WF_vars(ChunkReturn)

-----------------------------------------------------------------------------
(* extract_json on a given text *)

\* longest text
MaxJsonLen == 4

JsonChars == {"{", "}", "x"}

JsonTexts == UNION {[1..n -> JsonChars] : n \in 0..MaxJsonLen}

InitJson ==
    /\ PipelineIdle
    /\ rag_store = ClosedStore
    /\ call = NoCall
    /\ chunker = IdleChunker

\* extract_json(text)
JsonCall(text) ==
    /\ call.n = 0
    /\ call' = Called("extract_json", <<text>>, ExtractJson(text))
    /\ UNCHANGED <<pipeline, rag_store, chunker>>

NextJson == \E text \in JsonTexts : JsonCall(text)

SpecJson == InitJson /\ [][NextJson]_vars

-----------------------------------------------------------------------------
(* The pipeline, and the response parser on a given reply *)

\* most items of a reply parsed on its own
MaxParsed == 2

ParsedSeqs == UNION {[1..n -> Items] : n \in 0..MaxParsed}

ParsedTexts == {<<"x">>} \cup {ReplyText(its) : its \in ParsedSeqs}

\* pages of a reply parsed on its own: the small ones, one of two digits
\* and the largest u32
ParsedPages == (0..MaxPages) \cup {10, -1}

\* parse_examples_response / parse_exercises_response (json_str, file_id,
\* page)
ParseCall(json_str, file_id, page, type) ==
    /\ call.n = 0
    /\ \A r \in Runs : runs[r].pc = "idle"
    /\ call' = Called("parse", <<json_str, file_id, page, type>>,
                      ParseResponse(json_str, file_id, page, type))
    /\ UNCHANGED <<pipeline, rag_store, chunker>>

NextIds ==
    \/ call.n = 0 /\ Next
    \/ \E json_str \in ParsedTexts, file_id \in Files, page \in ParsedPages,
          type \in {"example", "exercise"} :
             ParseCall(json_str, file_id, page, type)

SpecIds == Init /\ [][NextIds]_vars

-----------------------------------------------------------------------------
(* Properties *)

\* the status get_analysis_progress reports for file_id in registry st
StatusOf(st, file_id) ==
    IF st[file_id] # NoSession THEN st[file_id].progress.status ELSE "idle"

\* invocation r takes a step
Steps(r) == runs'[r] # runs[r]

\* invocation r is at a checkpoint: the batch-entry check (the loop
\* condition holds) or the page-entry check
AtCheckpoint(r) ==
    \/ At(r, "page_entry")
    \/ At(r, "batch_entry") /\ ULe(runs[r].current_batch_start, runs[r].total_pages)

\* invocation r returns at a checkpoint in this step
ReturnsStopped(r) == runs[r].pc # "ret_stop" /\ runs'[r].pc = "ret_stop"

\* C1: when a run returns at a checkpoint because stop was requested, the
\* status of its file is "stopped".
C1_StoppedRunReportsStopped ==
    [][\A r \in Runs :
          ReturnsStopped(r) => StatusOf(states', runs[r].file_id) = "stopped"]_vars

\* C2: a run that observes should_stop at a checkpoint returns there and
\* changes nothing: the registry, the retrieval store, the result snapshot
\* (still the one found when the run started) and its own locals stay as
\* they are, and the run takes no step after it.
C2_StopCheckpointReturnsUntouched ==
    [][\A r \in Runs :
          /\ (AtCheckpoint(r) /\ ShouldStop(states, runs[r].file_id) /\ Steps(r))
                => /\ runs'[r] = [runs[r] EXCEPT !.pc = "ret_stop"]
                   /\ states' = states
                   /\ rag_index' = rag_index
                   /\ snapshot' = snapshot
                   /\ snapshot'[runs[r].file_id] = runs[r].found
          /\ runs[r].pc = "ret_stop" => ~Steps(r)]_vars

\* C2 witness: a run has returned at a page-entry checkpoint after pages that
\* produced Questions, and the snapshot is the one it found.
C2_Witness ==
    \E r \in Runs :
        /\ runs[r].pc = "ret_stop"
        /\ runs[r].last_visited >= 1
        /\ Len(runs[r].all_questions) >= 1
        /\ snapshot[runs[r].file_id] = runs[r].found

\* C3: the final progress update leaves a status that is already "stopped"
\* or "error" as it is.
C3_FinalUpdateKeepsStopped ==
    [][\A r \in Runs :
          (At(r, "final") /\ Steps(r)
           /\ StatusOf(states, runs[r].file_id) \in {"stopped", "error"})
             => StatusOf(states', runs[r].file_id) = StatusOf(states, runs[r].file_id)]_vars

\* C4: when start_analysis returns an error (meta.json unreadable, the
\* snapshot not written), the status of the file is "error".
C4_FailedRunReportsError ==
    [][\A r \in Runs :
          (runs[r].pc # "ret_err" /\ runs'[r].pc = "ret_err")
             => StatusOf(states', runs'[r].file_id) = "error"]_vars

\* the Documents of invocation r's store that this run added
AddedByRun(r) ==
    {runs[r].documents[i] : i \in (runs[r].opened + 1)..Len(runs[r].documents)}

\* the Documents invocation r's store held when it was loaded
HeldAtOpen(r) ==
    {runs[r].documents[i] : i \in 1..Min(runs[r].opened, Len(runs[r].documents))}

SeqRange(q) == {q[i] : i \in 1..Len(q)}

\* pages pass the page-entry checkpoint one after the other, upwards
PagesAscend ==
    [][\A r \in Runs :
          runs'[r].last_visited # runs[r].last_visited
             => runs'[r].last_visited = UAdd(runs[r].last_visited, 1)]_vars

\* C5 as stated: the context of page N is built only from Documents this
\* run added from pages <= N, whatever the store held when it was loaded.
C5_ContextOnlyFromThisRun ==
    \A r \in Runs : \A d \in SeqRange(runs[r].used.docs) :
        d \in AddedByRun(r) /\ ULe(d.page_number, runs[r].used.page)

\* C5 amended: pages are processed upwards one at a time, and every Document
\* the context of page N is built from was in the store when the run
\* loaded it or was added by this run from a page <= N.
C5_ContextFromOpenedOrEarlierPages ==
    /\ [](\A r \in Runs : \A d \in SeqRange(runs[r].used.docs) :
            \/ d \in HeldAtOpen(r)
            \/ d \in AddedByRun(r) /\ ULe(d.page_number, runs[r].used.page))
    /\ PagesAscend

\* C5 witness: on a store that was empty when loaded, the context of page 2
\* holds a Document of page 1 and one of page 2.
C5_Witness ==
    \E r \in Runs :
        /\ runs[r].opened = 0
        /\ runs[r].used.page = 2
        /\ \E d, e \in SeqRange(runs[r].used.docs) :
              d.page_number = 1 /\ e.page_number = 2

\* the Questions the completion calls of a run yield, in the order of the
\* calls
RECURSIVE Produced(_, _, _)
Produced(calls, file_id, i) ==
    IF i > Len(calls)
    THEN <<>>
    ELSE Extracted(calls[i].reply, file_id, calls[i].page, calls[i].type)
         \o Produced(calls, file_id, i + 1)

\* calls are made page by page upwards, the example call of a page before
\* its exercise call
CallsInOrder(calls) ==
    \A i \in 1..(Len(calls) - 1) :
        \/ ULt(calls[i].page, calls[i + 1].page)
        \/ /\ calls[i].page = calls[i + 1].page
           /\ calls[i].type = "example"
           /\ calls[i + 1].type = "exercise"

\* C6: when a run completes, the snapshot is exactly the Questions of this
\* run in production order, questions_found is its length and current_page
\* is total_pages.
C6_CompletedRunSnapshot ==
    [][\A r \in Runs :
          (At(r, "final") /\ Steps(r))
             => LET f == runs[r].file_id IN
                /\ snapshot'[f] = Produced(runs[r].calls, f, 1)
                /\ CallsInOrder(runs[r].calls)
                /\ states'[f].progress.status = "completed"
                /\ states'[f].progress.questions_found = Len(snapshot'[f])
                /\ states'[f].progress.current_page = runs[r].total_pages
                /\ states'[f].progress.total_pages = runs[r].total_pages]_vars

\* C6 witness: a second completed run over the same file replaced the
\* snapshot of the first with its own Questions, an example before an
\* exercise.
C6_Witness ==
    /\ runs["r1"].pc = "ret_ok"
    /\ runs["r2"].pc = "ret_ok"
    /\ runs["r2"].file_id = runs["r1"].file_id
    /\ Len(runs["r1"].all_questions) >= 1
    /\ runs["r2"].found = runs["r1"].all_questions
    /\ snapshot[runs["r2"].file_id] # runs["r2"].found
    /\ Len(snapshot[runs["r2"].file_id]) >= 2
    /\ snapshot[runs["r2"].file_id][1].question_type = "example"
    /\ StatusOf(states, runs["r2"].file_id) = "completed"

FailedCall(c) == c.reply.kind # "ok"

\* C7: a completion call that fails or does not deserialize adds no Question
\* and no Document and does not end the run: after the example call comes
\* the exercise call, after the exercise call the next page or batch, and a
\* run that gets to its end has visited every page and reports completed.
C7_FailedCallIsSkipped ==
    [][\A r \in Runs :
          /\ (At(r, "examples") /\ Steps(r))
                => /\ runs'[r].pc = "exercises"
                   /\ FailedCall(runs'[r].calls[Len(runs'[r].calls)])
                         => /\ runs'[r].all_questions = runs[r].all_questions
                            /\ runs'[r].documents = runs[r].documents
          /\ (At(r, "exercises") /\ Steps(r))
                => /\ runs'[r].pc \in {"page_entry", "batch_entry"}
                   /\ FailedCall(runs'[r].calls[Len(runs'[r].calls)])
                         => runs'[r].all_questions = runs[r].all_questions
          /\ (At(r, "final") /\ Steps(r))
                => /\ runs[r].last_visited = runs[r].total_pages
                   /\ runs[r].all_questions = Produced(runs[r].calls, runs[r].file_id, 1)
                   /\ StatusOf(states', runs[r].file_id) = "completed"]_vars

\* C7 witness: a run whose first call failed made a later call that yielded
\* a Question, and completed.
C7_Witness ==
    \E r \in Runs :
        /\ runs[r].pc = "ret_ok"
        /\ Len(runs[r].calls) >= 2
        /\ FailedCall(runs[r].calls[1])
        /\ Len(runs[r].all_questions) >= 1
        /\ StatusOf(states, runs[r].file_id) = "completed"

\* the steps of a page between its checkpoint and the next one
InPage == {"fetch", "chunks", "page_update", "examples", "exercises"}

InBatches(r) == runs[r].n_batches >= 1

LoopDone(r) == runs[r].pc \in {"save", "final", "ret_ok", "panicked"}

Unbatched(r) == runs[r].file_id # "none" /\ ULe(runs[r].total_pages, BatchThreshold)

Batched(r) == ULt(BatchThreshold, runs[r].total_pages)

\* C9 as stated: for every total_pages <= 400, 0 included, a run uses
\* exactly one batch, and that batch is [1, total_pages].
C9_OneBatchUpToThreshold ==
    \A r \in Runs :
        Unbatched(r) =>
            /\ runs[r].n_batches <= 1
            /\ InBatches(r) => runs[r].batch_start = 1
                               /\ runs[r].batch_end = runs[r].total_pages
            /\ LoopDone(r) => runs[r].n_batches = 1

\* C9 amended: for 1 <= total_pages <= 400 a run uses exactly one batch, and
\* that batch is [1, total_pages]; for total_pages = 0 it uses no batch.  A
\* run that is stopped or fails has entered at most that one batch.
C9_OneBatchUnlessEmpty ==
    \A r \in Runs :
        Unbatched(r) =>
            /\ runs[r].n_batches <= 1
            /\ InBatches(r) => runs[r].batch_start = 1
                               /\ runs[r].batch_end = runs[r].total_pages
                               /\ runs[r].total_pages >= 1
            /\ LoopDone(r) =>
                  runs[r].n_batches = (IF runs[r].total_pages = 0 THEN 0 ELSE 1)

\* C9 witness: a run over a document of exactly 400 pages has completed
\* with the single batch [1, 400].
C9_Witness ==
    \E r \in Runs :
        /\ runs[r].pc = "ret_ok"
        /\ runs[r].total_pages = BatchThreshold
        /\ runs[r].n_batches = 1
        /\ runs[r].batch_start = 1
        /\ runs[r].batch_end = BatchThreshold
        /\ runs[r].last_visited = BatchThreshold

\* ceil(n / 20) for a u32 n given as its pattern:
\* 2^32 = 20 * 214748364 + 16
CeilBatches(n) ==
    IF n >= 0
    THEN (n + BatchPages - 1) \div BatchPages
    ELSE 214748364 + ((n + 16 + BatchPages - 1) \div BatchPages)

\* C10: for every total_pages > 400 the batches of a run are visited in
\* increasing order, each starts at the previous end + 1 and has between 1
\* and 20 pages within [1, total_pages]; a run that is not stopped ends its
\* last batch at total_pages and has used ceil(total_pages / 20) batches.
C10_BatchesPartitionPages ==
    \A r \in Runs :
        Batched(r) =>
            /\ InBatches(r) =>
                  /\ runs[r].batch_start = UAdd(runs[r].prev_end, 1)
                  /\ ULe(1, runs[r].batch_start)
                  /\ ULe(runs[r].batch_start, runs[r].batch_end)
                  /\ ULe(runs[r].batch_end, runs[r].total_pages)
                  /\ runs[r].batch_end - runs[r].batch_start < BatchPages
            /\ LoopDone(r) =>
                  /\ runs[r].batch_end = runs[r].total_pages
                  /\ runs[r].n_batches = CeilBatches(runs[r].total_pages)

\* the terminal statuses of a session
Terminal == {"completed", "stopped", "error"}

\* this step is a start of file_id that registered its session
StartedNow(file_id) ==
    \E r \in Runs : /\ runs[r].pc = "idle"
                    /\ runs'[r].pc = "open"
                    /\ runs'[r].file_id = file_id

\* C11: the status of a file moves only along idle -> analyzing ->
\* {completed, stopped, error}: except by a start of the file, it changes
\* only from analyzing to a terminal status; a terminal status stays, and
\* analyzing is not entered.
C11_StatusMovesForward ==
    [][\A f \in Files :
          (~StartedNow(f) /\ StatusOf(states', f) # StatusOf(states, f))
             => /\ StatusOf(states, f) = "analyzing"
                /\ StatusOf(states', f) \in Terminal]_vars

\* a step that changes the registry and moves no run: a stop request
StopStep == runs' = runs /\ states' # states

\* C12: a stop request on a registered id sets should_stop and status
\* stopped in the same step and leaves current_page, total_pages and
\* questions_found, every other session and every file as they are; on an
\* id without session it changes nothing, so no entry is created.
C12_StopSetsStoppedOnly ==
    [][/\ StopStep =>
            \E f \in Files :
               /\ states[f] # NoSession
               /\ states'[f].should_stop
               /\ states'[f].progress.status = "stopped"
               /\ states'[f].progress.current_page = states[f].progress.current_page
               /\ states'[f].progress.total_pages = states[f].progress.total_pages
               /\ states'[f].progress.questions_found = states[f].progress.questions_found
               /\ \A g \in Files \ {f} : states'[g] = states[g]
               /\ UNCHANGED <<meta, polled, rag_store, call, chunker, rag_index, snapshot, faults>>
       /\ \A f \in Files :
            (states[f] = NoSession /\ states'[f] # NoSession) => StartedNow(f)]_vars

\* C12 witness: a session stopped while its run was at page 2 with a
\* Question found keeps its page and its count.
C12_Witness ==
    \E f \in Files :
        /\ states[f] # NoSession
        /\ states[f].should_stop
        /\ states[f].progress.status = "stopped"
        /\ states[f].progress.current_page = 2
        /\ states[f].progress.questions_found >= 1
        /\ \E r \in Runs : Active(r) /\ runs[r].file_id = f

\* C13: get_progress of an id without session answers status idle with
\* current_page, total_pages and questions_found 0 and creates no session;
\* of a registered id it answers the session's progress; in both cases the
\* registry and everything else stay as they are.
C13_PollAnswersWithoutEffect ==
    [][\A f \in Files :
          polled'[f] # polled[f]
             => /\ UNCHANGED <<meta, states, rag_index, snapshot, runs, faults>>
                /\ IF states[f] = NoSession
                   THEN /\ polled'[f].status = "idle"
                        /\ polled'[f].current_page = 0
                        /\ polled'[f].total_pages = 0
                        /\ polled'[f].questions_found = 0
                        /\ states'[f] = NoSession
                   ELSE polled'[f] = states[f].progress]_vars

\* C13 witness: the never-started f2 was answered idle with zero counts,
\* the running f1 with its progress at page 1, and f2 has no session.
C13_Witness ==
    /\ polled["f2"] # NoReply
    /\ polled["f2"].status = "idle"
    /\ polled["f2"].total_pages = 0
    /\ states["f2"] = NoSession
    /\ states["f1"] # NoSession
    /\ polled["f1"] = states["f1"].progress
    /\ polled["f1"].status = "analyzing"
    /\ polled["f1"].current_page = 1

\* the call of this step is op
Calls(op) == call'.n = call.n + 1 /\ call'.op = op

\* C14: add_document of a Document whose id the store holds leaves the
\* documents (length, order, content: the stored content stays even when
\* the new content differs) and the index file as they are.
C14_AddExistingIdChangesNothing ==
    [][(Calls("add_document") /\ HasId(rag_store.documents, call'.args[1].id))
          => /\ rag_store'.documents = rag_store.documents
             /\ rag_store'.disk = rag_store.disk]_vars

\* C14 witness: d1 was added while the write of the index file failed, then
\* added again with another content: the store holds the first content
\* once, and the index file is still without it.
C14_Witness ==
    /\ call.op = "add_document"
    /\ Len(rag_store.documents) = 1
    /\ rag_store.documents[1].id = call.args[1].id
    /\ rag_store.documents[1].content # call.args[1].content
    /\ rag_store.disk = <<>>

DistinctIds(documents) ==
    \A i, j \in 1..Len(documents) :
        documents[i].id = documents[j].id => i = j

IsPrefix(p, q) == Len(p) <= Len(q) /\ SubSeq(q, 1, Len(p)) = p

\* C15: the ids of the documents of a store are pairwise distinct, in
\* memory and in the index file; add_document and add_documents keep every
\* document where it is and as it is and only append, add_document at most
\* one; opening takes the documents of the index file in their order.
C15_IdsDistinctOrderKept ==
    /\ [](DistinctIds(rag_store.documents) /\ DistinctIds(rag_store.disk))
    /\ [][/\ Calls("add_document")
               => /\ IsPrefix(rag_store.documents, rag_store'.documents)
                  /\ Len(rag_store'.documents) <= Len(rag_store.documents) + 1
          /\ Calls("add_documents")
               => IsPrefix(rag_store.documents, rag_store'.documents)
          /\ Calls("new") => rag_store'.documents = rag_store.disk]_vars

\* C15 witness: d1 was appended after d2; the index file holds d2 only.
C15_Witness ==
    /\ call.op \in {"add_document", "add_documents"}
    /\ Len(rag_store.documents) = 2
    /\ rag_store.documents[1].id = "d2"
    /\ rag_store.documents[2].id = "d1"
    /\ Len(rag_store.disk) = 1
    /\ rag_store.disk[1] = rag_store.documents[1]

\* the call made is a search; its arguments and its results
Searched == call.op = "search"

SearchQuery == call.args[1]

SearchTopK == call.args[2]

\* C16: search returns at most top_k results, each with a score > 0, at
\* least one query term being a substring of its lowercased content, and
\* each a document of the store; a query without a term returns nothing.
C16_SearchResultsBounded ==
    Searched =>
        /\ Len(call.result) <= SearchTopK
        /\ \A i \in 1..Len(call.result) :
              /\ call.result[i].score > 0
              /\ \E w \in SeqRange(SplitWhitespace(ToLower(SearchQuery))) :
                    Contains(ToLower(call.result[i].document.content), w)
              /\ call.result[i].document \in SeqRange(rag_store.documents)
        /\ IsBlank(SearchQuery) => call.result = <<>>

\* C16 witness: three documents match the query and top_k = 2 of them are
\* returned.
C16_Witness ==
    /\ Searched
    /\ SearchTopK = 2
    /\ Len(call.result) = 2
    /\ Len(rag_store.documents) = 3
    /\ \A i \in 1..3 :
          Score(rag_store.documents[i], SplitWhitespace(ToLower(SearchQuery))) > 0

\* score = number of query terms that are substrings of the lowercased
\* content, times the weight of the doc type, in tenths
TermsIn(doc, query) ==
    LET words == SplitWhitespace(ToLower(query)) IN
    Cardinality({i \in 1..Len(words) : Contains(ToLower(doc.content), words[i])})

WeightedScore(doc, query) ==
    TermsIn(doc, query) * (CASE doc.doc_type = "example" -> 15
                             [] doc.doc_type = "knowledge" -> 12
                             [] doc.doc_type = "exercise" -> 10
                             [] OTHER -> 8)

\* document i of the store ranks before document j: higher score, or equal
\* score and inserted earlier (the id of a document of these stores is its
\* position)
RanksBefore(i, j) ==
    LET si == WeightedScore(rag_store.documents[i], SearchQuery)
        sj == WeightedScore(rag_store.documents[j], SearchQuery)
    IN  si > sj \/ (si = sj /\ i < j)

\* C17: search returns the first top_k of the documents with non-zero
\* score, ordered by descending score = matching terms x weight, documents
\* of equal score in insertion order.
C17_SearchRanksByWeightedScore ==
    Searched =>
        LET ranked == {i \in 1..Len(rag_store.documents) :
                          WeightedScore(rag_store.documents[i], SearchQuery) > 0}
            hit(k) == call.result[k].document.id
        IN  /\ Len(call.result) = Min(SearchTopK, Cardinality(ranked))
            /\ \A k \in 1..Len(call.result) :
                  /\ hit(k) \in ranked
                  /\ call.result[k].document = rag_store.documents[hit(k)]
                  /\ call.result[k].score
                        = WeightedScore(rag_store.documents[hit(k)], SearchQuery)
                  /\ \A l \in (k + 1)..Len(call.result) : RanksBefore(hit(k), hit(l))
                  /\ \A j \in ranked \ {hit(l) : l \in 1..Len(call.result)} :
                        RanksBefore(hit(k), j)

\* C17 witness: an example inserted after a knowledge document that matches
\* the same two terms is returned before it, and of two documents of equal
\* score the one inserted first is returned first.
C17_Witness ==
    /\ Searched
    /\ Len(rag_store.documents) = 3
    /\ Len(call.result) = 2
    /\ TermsIn(rag_store.documents[1], SearchQuery) = 2
    /\ TermsIn(rag_store.documents[3], SearchQuery) = 2
    /\ rag_store.documents[1].doc_type = "knowledge"
    /\ rag_store.documents[2].doc_type = "knowledge"
    /\ rag_store.documents[3].doc_type = "example"
    /\ WeightedScore(rag_store.documents[2], SearchQuery)
          = WeightedScore(rag_store.documents[1], SearchQuery)
    /\ call.result[1].document.id = 3
    /\ call.result[2].document.id = 1

\* the call made is a build_context; its budget, and the hits it draws on
Built == call.op = "build_context"

MaxTokens == call.args[2]

Hits == Search(rag_store.documents, call.args[1], ContextTopK)

\* the formatted texts of the first k hits, and their running estimate
RECURSIVE HitsText(_)
HitsText(k) ==
    IF k = 0 THEN <<>> ELSE HitsText(k - 1) \o FormatDoc(Hits[k].document)

RECURSIVE Estimate(_)
Estimate(k) ==
    IF k = 0
    THEN 0
    ELSE Estimate(k - 1) + (ContextLen(FormatDoc(Hits[k].document)) \div 4)

\* C18 as stated: floor(length / 4) of the returned context is at most
\* max_tokens.
C18_ContextLengthWithinBudget ==
    Built => ContextLen(call.result) \div 4 <= MaxTokens

\* C18 amended: the context is the formatted texts of the first k hits
\* of search(query, 10), k the largest number for which the running
\* estimate, the sum of floor(length / 4) of each text, is at most
\* max_tokens; floor(length / 4) of the whole context is at most
\* max_tokens + floor(3k / 4).
C18_ContextWithinRunningEstimate ==
    Built =>
        \E k \in 0..Len(Hits) :
            /\ call.result = HitsText(k)
            /\ Estimate(k) <= MaxTokens
            /\ k < Len(Hits) => Estimate(k + 1) > MaxTokens
            /\ ContextLen(call.result) \div 4 <= MaxTokens + ((3 * k) \div 4)

\* C18 witness: with a budget of 8 the context of two hits has
\* floor(length / 4) = 9, and a third hit was left out.
C18_Witness ==
    /\ Built
    /\ MaxTokens = 8
    /\ Len(Hits) = 3
    /\ call.result = HitsText(2)
    /\ ContextLen(call.result) \div 4 = 9

\* the call made is a chunk_by_paragraph; its text, its max_size, its chunks
Chunked == call.op = "chunk_by_paragraph"

ChunkText == call.args[1]

MaxSize == call.args[2]

Chunks == call.result

\* C19: every chunk has length <= max_size, separators included, unless it
\* is one single paragraph longer than max_size.
C19_ChunksWithinMaxSize ==
    Chunked =>
        \A i \in 1..Len(Chunks) :
            \/ StrLen(Chunks[i]) <= MaxSize
            \/ Len(SplitParagraphs(Chunks[i])) = 1

\* the non-blank elements of a sequence of paragraphs, in order
RECURSIVE NonBlank(_)
NonBlank(paras) ==
    IF paras = <<>>
    THEN <<>>
    ELSE (IF IsBlank(Head(paras)) THEN <<>> ELSE <<Head(paras)>>)
         \o NonBlank(Tail(paras))

\* the paragraphs of the chunks, chunk after chunk
RECURSIVE ParagraphsOf(_)
ParagraphsOf(chunks) ==
    IF chunks = <<>>
    THEN <<>>
    ELSE SplitParagraphs(Head(chunks)) \o ParagraphsOf(Tail(chunks))

\* the text is made of non-empty paragraphs and fits into max_size
FitsInOneChunk ==
    /\ \A p \in SeqRange(SplitParagraphs(ChunkText)) : p # <<>>
    /\ StrLen(ChunkText) <= MaxSize

\* the non-blank paragraphs of the text are those of the chunks, in order
ParagraphsKept ==
    NonBlank(ParagraphsOf(Chunks)) = NonBlank(SplitParagraphs(ChunkText))

\* C20 as stated: a text of non-empty paragraphs of total length <=
\* max_size comes back as one chunk equal to the text; in general the
\* non-blank paragraphs appear in the chunks in their order, each once.
C20_OneChunkWhenFits ==
    Chunked =>
        /\ FitsInOneChunk => Chunks = <<ChunkText>>
        /\ ParagraphsKept

\* C20 amended: a text of non-empty paragraphs of total length <= max_size
\* comes back as one chunk equal to the text if it holds a character that
\* is not white space, and as no chunk if it does not; in general the
\* non-blank paragraphs appear in the chunks in their order, each once.
C20_OneChunkWhenFitsAndNotBlank ==
    Chunked =>
        /\ FitsInOneChunk =>
              Chunks = (IF IsBlank(ChunkText) THEN <<>> ELSE <<ChunkText>>)
        /\ ParagraphsKept

\* C20 witness: the text "a", blank line, "a" of length 4 comes back as one
\* chunk equal to it for max_size = 4.
C20_Witness ==
    /\ Chunked
    /\ ChunkText = <<"a", "\n", "\n", "a">>
    /\ MaxSize = 4
    /\ FitsInOneChunk
    /\ Chunks = <<ChunkText>>
    /\ ParagraphsOf(Chunks) = <<<<"a">>, <<"a">>>>

-----------------------------------------------------------------------------
\* the stride of the window
Stride == chunker.chunk_size - chunker.overlap

CeilDiv(a, b) == (a + b - 1) \div b

ChunkEnded == chunker.pc \in {"done", "panicked", "rejected"}

\* C21: a call of chunk comes to an end, returning, failing or rejected.
C21_ChunkTerminates == (chunker.pc \in {"loop", "window"}) ~> ChunkEnded

\* C21, the calls with overlap < size: the loop runs at most
\* ceil(len / (size - overlap)) times.
C21_WindowsBounded ==
    (chunker.pc # "idle" /\ chunker.overlap < chunker.chunk_size)
       => /\ chunker.windows <= CeilDiv(Len(chunker.text), Stride)
          /\ chunker.pc # "panicked"

\* C21, the calls with overlap >= size: no window is computed.
C21_OverlapRejected ==
    (chunker.pc # "idle" /\ chunker.overlap >= chunker.chunk_size)
       => chunker.windows = 0 /\ chunker.start = 0

-----------------------------------------------------------------------------
ExtractedJson == call.op = "extract_json"

JsonText == call.args[1]

\* text[a..b] runs from the first opening to the last closing brace of text
FirstToLast(text, a, b) ==
    /\ text[a] = "{" /\ \A k \in 1..(a - 1) : text[k] # "{"
    /\ text[b] = "}" /\ \A k \in (b + 1)..Len(text) : text[k] # "}"

\* C22: extract_json returns the text from the first opening brace to the
\* last closing brace, both included, when an opening brace is followed
\* later by a closing one, and the text itself when it has no opening brace.
C22_ExtractJsonFirstToLast ==
    ExtractedJson =>
        /\ (\E i, j \in 1..Len(JsonText) :
               i < j /\ JsonText[i] = "{" /\ JsonText[j] = "}")
             => /\ ~call.result.panics
                /\ \E a, b \in 1..Len(JsonText) :
                      /\ FirstToLast(JsonText, a, b)
                      /\ call.result.text = SubSeq(JsonText, a, b)
        /\ (\A i \in 1..Len(JsonText) : JsonText[i] # "{")
             => call.result = [panics |-> FALSE, text |-> JsonText]

\* C22 witness: a text with a prefix and two closing braces is cut at the
\* opening brace and after the second closing brace.
C22_Witness ==
    /\ ExtractedJson
    /\ JsonText = <<"x", "{", "}", "}">>
    /\ call.result.text = <<"{", "}", "}">>

\* C28: extract_json never fails, and what it returns is the text itself or
\* a part of the text that starts with an opening and ends with a closing
\* brace.
C28_ExtractJsonTotal ==
    ExtractedJson =>
        /\ ~call.result.panics
        /\ \/ call.result.text = JsonText
           \/ /\ Contains(JsonText, call.result.text)
              /\ call.result.text # <<>>
              /\ Head(call.result.text) = "{"
              /\ call.result.text[Len(call.result.text)] = "}"

-----------------------------------------------------------------------------
\* the ids of a list of Questions
Ids(questions) == [k \in 1..Len(questions) |-> questions[k].id]

\* how many Questions of the same page and type come before the k-th
IndexInPage(questions, k) ==
    Cardinality({j \in 1..(k - 1) :
                    /\ questions[j].page_number = questions[k].page_number
                    /\ questions[j].question_type = questions[k].question_type})

\* C23: the id of a Question is file id, page, type and position in the
\* page's reply, joined by underscores, for a reply parsed on its own and
\* for the Questions of a run; the ids of one run are pairwise distinct; two
\* runs of a file that got the same replies have the same ids.
C23_QuestionIdsDeterministic ==
    /\ call.op = "parse"
          => LET questions == call.result.questions IN
             /\ \A k \in 1..Len(questions) :
                   questions[k].id =
                       <<call.args[2], "_">> \o Digits(call.args[3])
                       \o <<"_", call.args[4], "_">> \o Digits(k - 1)
             /\ \A j, k \in 1..Len(questions) :
                   questions[j].id = questions[k].id => j = k
    /\ \A r \in Runs :
          LET questions == runs[r].all_questions IN
          /\ \A k \in 1..Len(questions) :
                questions[k].id =
                    <<runs[r].file_id, "_">> \o Digits(questions[k].page_number)
                    \o <<"_", questions[k].question_type, "_">>
                    \o Digits(IndexInPage(questions, k))
          /\ \A j, k \in 1..Len(questions) :
                questions[j].id = questions[k].id => j = k
    /\ \A r, q \in Runs :
          (runs[r].file_id = runs[q].file_id /\ runs[r].calls = runs[q].calls)
             => Ids(runs[r].all_questions) = Ids(runs[q].all_questions)

\* C23 witness: two runs of f1 got the same replies, an example and an
\* exercise on page 1 among them, and hold the same ids.
C23_Witness ==
    /\ runs["r1"].file_id = "f1" /\ runs["r2"].file_id = "f1"
    /\ runs["r1"].pc = "ret_ok" /\ runs["r2"].pc = "ret_ok"
    /\ runs["r1"].calls = runs["r2"].calls
    /\ Ids(runs["r1"].all_questions)
          = << <<"f1", "_", "1", "_", "example", "_", "0">>,
               <<"f1", "_", "1", "_", "exercise", "_", "0">> >>
    /\ Ids(runs["r2"].all_questions) = Ids(runs["r1"].all_questions)

-----------------------------------------------------------------------------
\* C24: a run for which stop was requested while it was in progress returns
\* at its next checkpoint and leaves the snapshot alone, whatever was done
\* on the registry in between, a new start of its file included.
C24_StopNeverLost ==
    [][\A r \in Runs :
          (requests[r] # "none" /\ AtCheckpoint(r) /\ Steps(r))
             => runs'[r].pc = "ret_stop" /\ snapshot' = snapshot]_vars

\* C24 amended: the request stays in the registry until a start of the same
\* file replaces the session, and a run whose request is still there returns
\* at its next checkpoint and leaves the snapshot and the registry alone.
C24_StopKeptUntilNewStart ==
    /\ [](\A r \in Runs :
            (requests[r] = "pending" /\ Active(r))
               => ShouldStop(states, runs[r].file_id))
    /\ [][\A r \in Runs :
            /\ (requests[r] = "pending" /\ AtCheckpoint(r) /\ Steps(r))
                  => /\ runs'[r].pc = "ret_stop"
                     /\ snapshot' = snapshot
                     /\ states' = states
            /\ (requests[r] = "pending" /\ requests'[r] # "pending")
                  => \E q \in Runs :
                        /\ runs[q].pc = "idle" /\ runs'[q].pc = "open"
                        /\ runs'[q].file_id = runs[r].file_id]_vars

\* C24 witness: stop was requested during page 1 of a run while a second run
\* of the file was in progress too; the first run returned at the checkpoint
\* of page 2 and no snapshot was written.
C24_Witness ==
    /\ requests["r1"] = "pending"
    /\ runs["r1"].pc = "ret_stop"
    /\ runs["r1"].last_visited = 1
    /\ runs["r1"].page = 2
    /\ runs["r2"].file_id = "f1"
    /\ Active("r2")
    /\ snapshot["f1"] = NoFile

-----------------------------------------------------------------------------
\* C25: the context is the formatted texts, whole and in rank order, of the
\* first j hits of search(query, 10), j <= 10: each of them kept the running
\* estimate within max_tokens and the hit after them, if there is one, does
\* not; nothing of that hit or of a later one is in the context.
C25_ContextIsPrefixOfHits ==
    Built =>
        \E j \in 0..ContextTopK :
            /\ j <= Len(Hits)
            /\ call.result = HitsText(j)
            /\ \A i \in 1..j : Estimate(i) <= MaxTokens
            /\ j < Len(Hits) => Estimate(j + 1) > MaxTokens

\* C25 witness: of three hits the first is in the context, the second does
\* not fit, and the third, which would fit after the first, is left out.
C25_Witness ==
    /\ Built
    /\ Len(Hits) = 3
    /\ call.result = HitsText(1)
    /\ Estimate(2) > MaxTokens
    /\ Estimate(1) + (ContextLen(FormatDoc(Hits[3].document)) \div 4) <= MaxTokens

-----------------------------------------------------------------------------
\* the call made in this step is an add_document of a Document whose id the
\* store does not hold
Appends == Calls("add_document") /\ ~HasId(rag_store.documents, call'.args[1].id)

\* C26: the documents of the index file are the first documents of the open
\* store, and all of them when the store is opened and from the appending
\* add_document whose write went through up to the next appending one; an
\* add_document whose write fails returns with the Document appended in
\* memory all the same.
C26_WriteThroughSwallowsFailures ==
    /\ [](rag_store.open => IsPrefix(rag_store.disk, rag_store.documents))
    /\ [][/\ Appends
               => /\ rag_store'.open
                  /\ rag_store'.documents = Append(rag_store.documents, call'.args[1])
                  /\ call'.args[2] = "written"
                        => rag_store'.disk = rag_store'.documents
          /\ (Calls("add_document") /\ ~Appends
              /\ rag_store.disk = rag_store.documents)
               => rag_store'.disk = rag_store'.documents
          /\ Calls("new") => rag_store'.disk = rag_store'.documents]_vars

\* C26 witness: the write of the second add_document failed after the file
\* was truncated: the store holds two Documents, the index file none.
C26_Witness ==
    /\ call.op = "add_document"
    /\ call.args[2] = "cut"
    /\ Len(rag_store.documents) = 2
    /\ rag_store.documents[2] = call.args[1]
    /\ rag_store.disk = <<>>

-----------------------------------------------------------------------------
\* the progress of invocation r's file in registry st
ProgressOf(st, r) == st[runs[r].file_id].progress

\* a current_step that names a step of the loop: not the one the session was
\* created with, and not empty
NamesLoopStep(step) == step \notin {InitialState(0).progress.current_step, ""}

\* C27: the progress update of a batch entry leaves current_page at the
\* batch's first page and a current_step that names the step, and the
\* progress update of a page whose chunks were inserted leaves current_page
\* at that page and a current_step that names the step.
C27_UpdatesNameTheStep ==
    [][\A r \in Runs :
          /\ (At(r, "batch_update") /\ Steps(r) /\ runs'[r].pc # "panicked")
                => /\ ProgressOf(states', r).current_page = runs[r].current_batch_start
                   /\ NamesLoopStep(ProgressOf(states', r).current_step)
          /\ (At(r, "page_update") /\ Steps(r))
                => /\ ProgressOf(states', r).current_page = runs[r].page
                   /\ NamesLoopStep(ProgressOf(states', r).current_step)]_vars

\* C27, the part about current_page alone.
C27_UpdatesSetCurrentPage ==
    [][\A r \in Runs :
          /\ (At(r, "batch_update") /\ Steps(r) /\ runs'[r].pc # "panicked")
                => ProgressOf(states', r).current_page = runs[r].current_batch_start
          /\ (At(r, "page_update") /\ Steps(r))
                => ProgressOf(states', r).current_page = runs[r].page]_vars

-----------------------------------------------------------------------------
\* invocation r goes from one batch to the next in this step
NextBatchStep(r) ==
    /\ runs[r].pc \notin {"idle", "open"}
    /\ runs'[r].current_batch_start # runs[r].current_batch_start

\* C29: no sum of the batch loop leaves u32 (the run neither panics on one
\* nor goes on with a wrapped value), the batch start grows from one batch
\* to the next, and so does the page that passes the page-entry checkpoint.
C29_BatchLoopAdvances ==
    [][\A r \in Runs :
          /\ (At(r, "batch_update") /\ Steps(r))
                => ~BatchEndOverflows(runs[r].current_batch_start, runs[r].batch_size)
          /\ NextBatchStep(r)
                => /\ ~UAddOverflows(runs[r].batch_end, 1)
                   /\ ULt(runs[r].current_batch_start, runs'[r].current_batch_start)
          /\ runs'[r].last_visited # runs[r].last_visited
                => ULt(runs[r].last_visited, runs'[r].last_visited)]_vars

-----------------------------------------------------------------------------
(* Two documents *)

\* Both files are documents of one page; no collaborator fails.  The
\* caller starts, stops and polls either file, one start per file id at a
\* time.
InitTwo ==
    /\ meta = [f \in Files |-> [total_pages |-> 1]]
    /\ states = [f \in Files |-> NoSession]
    /\ rag_index = [f \in Files |-> <<>>]
    /\ snapshot = [f \in Files |-> NoFile]
    /\ runs = [r \in Runs |-> IdleRun]
    /\ faults = MaxFaults
    /\ polled = [f \in Files |-> NoReply]
    /\ requests = [r \in Runs |-> "none"]
    /\ rag_store = ClosedStore
    /\ call = NoCall
    /\ chunker = IdleChunker

NextTwo ==
    \/ \E r \in Runs, f \in Files : StartAnalysis(r, f)
    \/ \E f \in Files : StopAnalysis(f)
    \/ \E r \in Runs : RunStep(r)
    \/ \E f \in Files : GetAnalysisProgress(f)

SpecTwo == InitTwo /\ [][NextTwo]_vars

\* the step is a start of file A or a step of an invocation on A (the
\* invocation moves), or a stop or get_progress of A (no invocation moves)
OnFile(A) ==
    \/ \E r \in Runs : Steps(r) /\ runs'[r].file_id = A
    \/ runs' = runs /\ StopAnalysis(A)
    \/ runs' = runs /\ GetAnalysisProgress(A)

\* the session, the stored index, the result snapshot of file B and the
\* invocations in progress on B are as they were
Untouched(B) ==
    /\ states'[B] = states[B]
    /\ rag_index'[B] = rag_index[B]
    /\ snapshot'[B] = snapshot[B]
    /\ \A r \in Runs : (Active(r) /\ runs[r].file_id = B) => runs'[r] = runs[r]

\* C30: a start, stop, get_progress or run step on file A leaves the
\* session (progress and should_stop), the retrieval store and the result
\* snapshot of every other file B as they were.
C30_RunsIsolated ==
    [][\A A \in Files, B \in Files : (A # B /\ OnFile(A)) => Untouched(B)]_vars

\* a run of f1 has completed while a run of f2 was stopped: each file has
\* the outcome of its own run
C30_Witness ==
    /\ runs["r1"].pc = "ret_ok" /\ runs["r2"].pc = "ret_stop"
    /\ runs["r1"].file_id # runs["r2"].file_id
    /\ states[runs["r1"].file_id].progress.status = "completed"
    /\ states[runs["r2"].file_id].progress.status = "stopped"
    /\ rag_index[runs["r1"].file_id] # <<>>
    /\ polled[runs["r2"].file_id] # NoReply

====
